---- MODULE Spec2Model ----
(***************************************************************************)
(* Model of the optimization task pipeline of sgl-agent:                   *)
(*   - SimpleTaskManager (src/sql_agent/task_manager.py): task registry,   *)
(*     queue ceiling, counting semaphore, per-task timeout, error          *)
(*     statistics, sweep of terminal tasks;                                *)
(*   - the result query of the HTTP layer (src/sql_agent/api.py);          *)
(*   - LLMAnalyzer (src/sql_agent/llm_analyzer.py): the retry-with-repair  *)
(*     protocol and the deterministic DDL generation.                      *)
(*                                                                         *)
(* Optional values (Python None / a value) are sequences of length 0 / 1.  *)
(* Time is counted in seconds for pipeline executions and in full hours    *)
(* for the sweep timer and the age of terminal tasks.                      *)
(***************************************************************************)
EXTENDS Integers, Sequences, FiniteSets, TLC

VARIABLES
    \* ---- configuration of SimpleTaskManager, fixed by __init__ ----
    max_workers,            \* self.max_workers
    max_queue_size,         \* self.max_queue_size (0 = unlimited)
    task_timeout_minutes,   \* self.task_timeout_minutes
    use_llm,                \* self.use_llm and self.llm_analyzer is not None
    \* ---- state of SimpleTaskManager ----
    tasks,                  \* self.tasks: task id -> Task
    running_tasks,          \* self._running_tasks
    sem_value,              \* free permits of self._semaphore
    error_stats,            \* self.error_stats
    \* ---- event loop ----
    next_id,                \* number of Task objects created so far (ids are fresh)
    pc,                     \* position of the coroutine _process_task_with_semaphore(id)
    pending_exc,            \* exception raised by _execute_task, not yet handled
    elapsed,                \* seconds the pipeline of a task executed before wait_for ended
    sweep_due,              \* the hourly sleep of _periodic_cleanup has expired
    age,                    \* full hours since a registered task became DONE or FAILED
    reply,                  \* outcome of the last create_task call
    \* ---- one run of LLMAnalyzer._call_with_retries ----
    rt_max_attempts,        \* the parameter max_attempts
    rt_pc,                  \* "idle", "loop" (in the for loop), "returned", "raised"
    rt_attempt,             \* the loop variable attempt (0 before the loop)
    rt_all_errors,          \* the local list all_errors
    rt_calls,               \* requests sent to the producer so far, with its answers
    rt_return,              \* the returned object
    rt_raised,              \* the raised LLMAnalyzerError
    \* ---- one run of LLMAnalyzer.analyze_database inside _execute_task ----
    pl_env,                 \* what is outside the pipeline in this run
    pl_stage,               \* the stage analyze_database is about to run
    pl_trace,               \* the stages run so far, in order
    pl_locals,              \* local variables of analyze_database
    pl_details,             \* details of the LLMAnalyzerError raised, if any
    \* ---- repeated application of _replace_table_paths_robust ----
    pq_query,               \* the query text given to the first application
    pq_catalog_name,        \* the catalog name
    pq_outputs,             \* the texts returned so far, each from the previous one
    pq_new_ddl,             \* the generated DDL the rewriting of a query looks at
    pq_enable_sql_parsing,  \* self.enable_sql_parsing
    \* ---- one call of LLMAnalyzer._heuristic_analysis ----
    ha_columns,             \* the parameter columns
    ha_row_count,           \* the parameter row_count
    ha_column_stats,        \* the parameter column_stats: column name -> cardinality
    ha_analysis,            \* the returned analysis, if the call returned
    \* ---- one run of _analyze_ddl_with_llm and _generate_ddl_deterministic ----
    an_ddl,                 \* the parameter original_ddl
    an_table_stats,         \* the parameter table_stats
    an_i,                   \* the statement the loop is about to look at
    an_outcomes,            \* what the strategy request did, per statement
    an_analysis,            \* the local list tables_analysis
    an_new_ddl,             \* the returned list of statements, once generated
    \* ---- the event loop running the coroutines of the task manager ----
    lp_eager,               \* wait_for awaits the pipeline inline (Python 3.12 and later)
    lp_max_workers,         \* the size of the semaphore
    lp_sem,                 \* the free slots of the semaphore
    lp_running,             \* the task whose coroutine holds the thread, 0 for none
    lp_pc,                  \* where the coroutine of each task is
    lp_stage,               \* the stages of analyze_database each task has run
    lp_timer,               \* the timeout handle of each task
    lp_served,              \* the submissions, status and statistics calls served
    \* ---- one call of _optimize_queries_parallel with its worker threads ----
    th_queries,             \* the parameter queries: whether the rewriting of each raises
    th_pool,                \* self.max_workers, the size of the thread pool
    th_pc,                  \* where the worker of each query is
    th_lock,                \* the query whose worker holds _errors_lock, 0 for none
    th_errors,              \* the local list errors
    th_results,             \* the local list results
    th_collected,           \* the futures as_completed has yielded
    th_main,                \* where the calling thread is
    \* ---- one call of GET /health ----
    hc_stats,               \* what task_manager.get_stats() returned
    hc_report               \* the response, once built

mgr_vars == <<max_workers, max_queue_size, task_timeout_minutes, use_llm,
              tasks, running_tasks, sem_value, error_stats,
              next_id, pc, pending_exc, elapsed, sweep_due, age, reply>>

rt_vars == <<rt_max_attempts, rt_pc, rt_attempt, rt_all_errors, rt_calls, rt_return,
             rt_raised>>

pl_vars == <<pl_env, pl_stage, pl_trace, pl_locals, pl_details>>

pq_vars == <<pq_query, pq_catalog_name, pq_outputs, pq_new_ddl, pq_enable_sql_parsing>>

ha_vars == <<ha_columns, ha_row_count, ha_column_stats, ha_analysis>>

an_vars == <<an_ddl, an_table_stats, an_i, an_outcomes, an_analysis, an_new_ddl>>

\* The variables of the runs modelled further below.
lp_vars == <<lp_eager, lp_max_workers, lp_sem, lp_running, lp_pc, lp_stage, lp_timer,
             lp_served>>

th_vars == <<th_queries, th_pool, th_pc, th_lock, th_errors, th_results, th_collected,
             th_main>>

hc_vars == <<hc_stats, hc_report>>

ex_vars == <<an_vars, lp_vars, th_vars, hc_vars>>

aux_vars == <<rt_vars, pl_vars, pq_vars, ha_vars, ex_vars>>

vars == <<mgr_vars, aux_vars>>

(***************************************************************************)
(* Bounds of the model                                                     *)
(***************************************************************************)
MaxSubmit == 2          \* Task objects ever created
MaxRejects == 1         \* rejected submissions counted
MaxWorkers == 2         \* largest max_workers explored
MaxQueue == 1           \* largest max_queue_size explored
MaxTimeoutMinutes == 1  \* largest task_timeout_minutes explored

TaskIds == 1..MaxSubmit

(***************************************************************************)
(* Data: requests                                                          *)
(***************************************************************************)

\* JDBC urls, by the parts the catalog extraction looks at.
\*   "jdbc:trino://localhost:8080?catalog=test"
\*   "jdbc://postgresql://localhost:5432/testdb"
UrlTrino == [has_jdbc_slashes |-> FALSE, catalog_param |-> <<"test">>, last_segment |-> ""]
UrlJdbc  == [has_jdbc_slashes |-> TRUE, catalog_param |-> <<>>, last_segment |-> "testdb"]

\* A column is <<name, type>>.
ColsUsers  == << <<"id", "INTEGER">>, <<"name", "VARCHAR">> >>
ColsOrders == << <<"order_id", "VARCHAR">>, <<"created_at", "TIMESTAMP">> >>

\* A statement, by its parsed structure.  kind is the leading keywords.
\* str_values: every value of the dict is a string (Dict[str, str]).
Statement(kind, cat, sch, tbl, cols, parts, clus) ==
    [kind |-> kind, catalog |-> cat, schema |-> sch, table |-> tbl,
     columns |-> cols, partitioning |-> parts, clustering |-> clus,
     str_values |-> TRUE]

CreateTable(cat, sch, tbl, cols) ==
    Statement("CREATE TABLE", cat, sch, tbl, cols, <<>>, <<>>)

\* A query text, by its parsed structure: SELECT <projection> FROM
\* <catalog>.<schema>.<table> [GROUP BY <columns>] [LIMIT <n>].
\* is_str: the value is a string.  parses: sqlglot.parse_one returns a tree
\* for the text (it raises otherwise).
SqlOf(proj, cat, sch, tbl, group, lim, parses) ==
    [projection |-> proj, catalog |-> cat, schema |-> sch, table |-> tbl,
     group_by |-> group, limit |-> lim, is_str |-> TRUE, parses |-> parses]

Sql(proj, cat, sch, tbl, lim) == SqlOf(proj, cat, sch, tbl, <<>>, lim, TRUE)

\* A "query" value that is not a string (queries are List[Dict[str, Any]]).
NotAString == [Sql(<<>>, <<>>, <<>>, "", <<>>) EXCEPT !.is_str = FALSE]

Query(id, tbl) ==
    [queryid |-> id, query |-> Sql(<<"*">>, <<"test">>, <<"public">>, tbl, <<>>),
     runquantity |-> 10]

\* OptimizationRequest objects that passed the validators of models.py.
Requests ==
    { [url |-> UrlTrino,
       ddl |-> << CreateTable("test", "public", "users", ColsUsers) >>,
       queries |-> << Query("q1", "users") >>],
      [url |-> UrlJdbc,
       ddl |-> << CreateTable("test", "public", "users", ColsUsers),
                  CreateTable("test", "public", "orders", ColsOrders) >>,
       queries |-> << Query("q1", "users"), Query("q2", "orders") >>] }

\* The number of queries of a large request.
ManyQueries == 401

\* Requests with a query value that is not a string, and with one identifier
\* used by two queries.
OddRequests ==
    { [url |-> UrlTrino,
       ddl |-> << CreateTable("test", "public", "users", ColsUsers) >>,
       queries |-> << Query("q1", "users"),
                      [queryid |-> "q2", query |-> NotAString, runquantity |-> 1] >>],
      [url |-> UrlTrino,
       ddl |-> << CreateTable("test", "public", "users", ColsUsers),
                  CreateTable("test", "public", "orders", ColsOrders) >>,
       queries |-> << Query("q1", "users"), Query("q1", "orders") >>],
      [url |-> UrlTrino,
       ddl |-> << CreateTable("test", "public", "users", ColsUsers) >>,
       queries |-> [i \in 1..ManyQueries |->
                       IF i = 1
                       THEN [queryid |-> "q1", query |-> NotAString, runquantity |-> 1]
                       ELSE Query("q2", "users")]] }

(***************************************************************************)
(* LLMAnalyzer: catalog extraction                                         *)
(***************************************************************************)

\* LLMAnalyzer._extract_catalog_from_ddl: catalog of the first three-part
\* CREATE TABLE path among the first 5 statements (no system schema).
RECURSIVE CatalogFromDdlFrom(_, _)
CatalogFromDdlFrom(ddl_list, i) ==
    IF i > Len(ddl_list) \/ i > 5 THEN <<>>
    ELSE IF /\ ddl_list[i].kind = "CREATE TABLE"
            /\ ddl_list[i].catalog # ""
            /\ ddl_list[i].schema # ""
            /\ ddl_list[i].schema \notin {"information_schema", "pg_catalog", "sys"}
         THEN <<ddl_list[i].catalog>>
         ELSE CatalogFromDdlFrom(ddl_list, i + 1)

_extract_catalog_from_ddl(ddl_list) == CatalogFromDdlFrom(ddl_list, 1)

\* LLMAnalyzer._extract_catalog_from_url
analyzer_extract_catalog_from_url(url) ==
    IF url.catalog_param # <<>> THEN url.catalog_param[1]
    ELSE IF url.has_jdbc_slashes /\ url.last_segment # "" THEN url.last_segment
    ELSE "default_catalog"

\* analyze_database, lines 94-103: the catalog the pipeline works with.
PipelineCatalog(request_data) ==
    LET from_url == analyzer_extract_catalog_from_url(request_data.url)
        from_ddl == _extract_catalog_from_ddl(request_data.ddl)
    IN  IF from_url = "default_catalog" /\ Len(request_data.ddl) > 0
           /\ from_ddl # <<>> /\ from_ddl[1] # "public"
        THEN from_ddl[1]
        ELSE from_url

(***************************************************************************)
(* DatabaseConnector and the collection of statistics                      *)
(*                                                                         *)
(* A data source is described by what its driver does on connect           *)
(*   "missing"      the driver module cannot be imported                   *)
(*   "unsupported"  the url names no supported database type               *)
(*   "refused"      the driver's connect raises                            *)
(*   "ok"           a connection is returned                               *)
(* and by what a statistics query on an open connection does               *)
(*   "error"        the cursor raises                                      *)
(*   "empty"        no row count and no columns come back                  *)
(*   "ok"           row count and column cardinalities come back           *)
(***************************************************************************)
\* Statistics of the tables of a data source: table name -> row count and
\* cardinality of every column.  NoStats is the empty dict.
NoStats == <<>>

DataSources ==
    { [driver |-> "missing", query |-> "ok"],
      [driver |-> "unsupported", query |-> "ok"],
      [driver |-> "refused", query |-> "ok"],
      [driver |-> "ok", query |-> "error"],
      [driver |-> "ok", query |-> "empty"],
      [driver |-> "ok", query |-> "ok"] }

\* DatabaseConnector.__init__
DatabaseConnector == [connection |-> FALSE, closed |-> FALSE]

\* DatabaseConnector.connect: the returned flag and the connector afterwards.
\* Every exception of the driver is caught and reported as False.
connect(db_connector, source) ==
    IF source.driver = "ok"
    THEN [ok |-> TRUE, connector |-> [db_connector EXCEPT !.connection = TRUE]]
    ELSE [ok |-> FALSE, connector |-> db_connector]

RowCountKnown == 1000
CardinalityKnown == 5

\* DatabaseConnector.get_table_stats: <<>> is the empty dict.
get_table_stats(db_connector, source, table_name) ==
    IF ~db_connector.connection \/ source.query # "ok"
    THEN <<>>
    ELSE << [row_count |-> RowCountKnown] >>

\* DatabaseConnector.get_column_stats: column name -> cardinality.
get_column_stats(db_connector, source, columns) ==
    IF ~db_connector.connection \/ source.query # "ok"
    THEN <<>>
    ELSE [n \in {columns[i][1] : i \in 1..Len(columns)} |-> CardinalityKnown]

\* DatabaseConnector.close: closes the connection if there is one; closed
\* records that close was called.
close(db_connector) == [db_connector EXCEPT !.closed = TRUE]

\* The statistics block closing the connector at the end of the connected
\* branch instead of in a finally clause.
CollectStatistics_close_when_connected(original_ddl, source) ==
    LET db_connector == DatabaseConnector
        connected == connect(db_connector, source)
        named == {i \in 1..Len(original_ddl) : original_ddl[i].table # ""}
        Stats(i) == get_table_stats(connected.connector, source, original_ddl[i].table)
        ColumnStats(i) ==
            get_column_stats(connected.connector, source, original_ddl[i].columns)
        collected == {i \in named : Stats(i) # <<>> \/ ColumnStats(i) # <<>>}
        table_stats ==
            IF connected.ok
            THEN [t \in {original_ddl[i].table : i \in collected} |->
                    LET i == CHOOSE j \in collected :
                                 /\ original_ddl[j].table = t
                                 /\ \A k \in collected :
                                        original_ddl[k].table = t => k <= j
                    IN  [row_count |-> IF Stats(i) = <<>> THEN 0 ELSE Stats(i)[1].row_count,
                         column_stats |-> ColumnStats(i)]]
            ELSE NoStats
    IN  [table_stats |-> table_stats,
         db_connector |-> IF connected.ok THEN close(connected.connector)
                          ELSE connected.connector]

\* analyze_database, lines 107-147: the statistics gathered from the data
\* source and the connector after the finally clause.
CollectStatistics(original_ddl, source) ==
    LET db_connector == DatabaseConnector
        connected == connect(db_connector, source)
        named == {i \in 1..Len(original_ddl) : original_ddl[i].table # ""}
        Stats(i) == get_table_stats(connected.connector, source, original_ddl[i].table)
        ColumnStats(i) ==
            get_column_stats(connected.connector, source, original_ddl[i].columns)
        collected == {i \in named : Stats(i) # <<>> \/ ColumnStats(i) # <<>>}
        table_stats ==
            IF connected.ok
            THEN [t \in {original_ddl[i].table : i \in collected} |->
                    LET i == CHOOSE j \in collected :
                                 /\ original_ddl[j].table = t
                                 /\ \A k \in collected :
                                        original_ddl[k].table = t => k <= j
                    IN  [row_count |-> IF Stats(i) = <<>> THEN 0 ELSE Stats(i)[1].row_count,
                         column_stats |-> ColumnStats(i)]]
            ELSE NoStats
    IN  [table_stats |-> table_stats, db_connector |-> close(connected.connector)]

(***************************************************************************)
(* LLMAnalyzer: table analysis and deterministic DDL generation            *)
(***************************************************************************)

Take(seq, n) == SubSeq(seq, 1, IF Len(seq) < n THEN Len(seq) ELSE n)

\* Keywords of _heuristic_analysis (lines 486-492) contained in the lower-cased
\* column names, and in the upper-cased column types, of the model's tables.
NameKeywords(col_name) ==
    CASE col_name = "id"          -> {"id"}
      [] col_name = "order_id"    -> {"id"}
      [] col_name = "customer_id" -> {"id"}
      [] col_name = "created_at"  -> {"created"}
      [] col_name = "updated_at"  -> {"updated", "date"}
      [] col_name = "order_date"  -> {"date"}
      [] col_name = "event_time"  -> {"time"}
      [] col_name = "status"      -> {"status"}
      [] col_name = "user_key"    -> {"key"}
      [] col_name = "type_code"   -> {"type", "code"}
      [] OTHER                    -> {}

TypeKeywords(col_type) ==
    CASE col_type = "TIMESTAMP" -> {"TIMESTAMP", "TIME"}
      [] col_type = "DATE"      -> {"DATE"}
      [] OTHER                  -> {}

ColumnNames(columns) == [i \in 1..Len(columns) |-> columns[i][1]]

\* An analysis that does not look at the type of a column.
_heuristic_analysis_any_type(table_name, columns, row_count, column_stats) ==
    LET names == ColumnNames(columns)
        cardinality(n) == IF n \in DOMAIN column_stats THEN column_stats[n] ELSE 0
        IsPartition(n) ==
            /\ NameKeywords(n) \cap {"date", "time", "created", "updated"} # {}
            /\ (cardinality(n) > 10 \/ cardinality(n) = 0)
        IsCluster(n) ==
            /\ NameKeywords(n) \cap {"id", "key", "code", "type", "status"} # {}
            /\ \/ row_count = 0
               \/ (10 < cardinality(n) /\ 2 * cardinality(n) < row_count)
               \/ cardinality(n) = 0
    IN  [table_name |-> table_name,
         original_columns |-> columns,
         partition_columns |-> Take(SelectSeq(names, IsPartition), 2),
         cluster_columns |-> Take(SelectSeq(names, IsCluster), 4),
         compression |-> "ZSTD"]

\* LLMAnalyzer._heuristic_analysis.  row_count is 0 and column_stats is empty
\* when the statistics of the table are unknown.
_heuristic_analysis(table_name, columns, row_count, column_stats) ==
    LET names == ColumnNames(columns)
        TypeOf(n) == (CHOOSE i \in 1..Len(columns) : columns[i][1] = n)
        cardinality(n) == IF n \in DOMAIN column_stats THEN column_stats[n] ELSE 0
        IsPartition(n) ==
            /\ NameKeywords(n) \cap {"date", "time", "created", "updated"} # {}
            /\ TypeKeywords(columns[TypeOf(n)][2]) \cap {"DATE", "TIMESTAMP", "TIME"} # {}
            /\ (cardinality(n) > 10 \/ cardinality(n) = 0)
        IsCluster(n) ==
            /\ NameKeywords(n) \cap {"id", "key", "code", "type", "status"} # {}
            /\ \/ row_count = 0
               \/ (10 < cardinality(n) /\ 2 * cardinality(n) < row_count)
               \/ cardinality(n) = 0
    IN  [table_name |-> table_name,
         original_columns |-> columns,
         partition_columns |-> Take(SelectSeq(names, IsPartition), 2),
         cluster_columns |-> Take(SelectSeq(names, IsCluster), 4),
         compression |-> "ZSTD"]

\* The iteration with the producer's lists taken whole.
AnalyzeOne_uncapped(ddl_item, answer, table_stats) ==
    IF ddl_item.kind # "CREATE TABLE" \/ ddl_item.table = "" \/ ddl_item.columns = <<>>
    THEN <<>>
    ELSE IF answer # <<>>
         THEN << [table_name |-> ddl_item.table,
                  original_columns |-> ddl_item.columns,
                  partition_columns |-> answer[1].partition_columns,
                  cluster_columns |-> answer[1].cluster_columns,
                  compression |-> answer[1].compression] >>
         ELSE IF ddl_item.table \in DOMAIN table_stats
         THEN << _heuristic_analysis(ddl_item.table, ddl_item.columns,
                                     table_stats[ddl_item.table].row_count,
                                     table_stats[ddl_item.table].column_stats) >>
         ELSE << _heuristic_analysis(ddl_item.table, ddl_item.columns, 0, <<>>) >>

\* One iteration of the loop of _analyze_ddl_with_llm (lines 374-459).
\* answer is the producer's strategy for the table: <<>> when the request
\* raised or carried no JSON object, <<a>> for a parsed object a.
AnalyzeOne(ddl_item, answer, table_stats) ==
    IF ddl_item.kind # "CREATE TABLE" \/ ddl_item.table = "" \/ ddl_item.columns = <<>>
    THEN <<>>
    ELSE IF answer # <<>>
         THEN << [table_name |-> ddl_item.table,
                  original_columns |-> ddl_item.columns,
                  partition_columns |-> Take(answer[1].partition_columns, 2),
                  cluster_columns |-> Take(answer[1].cluster_columns, 4),
                  compression |-> answer[1].compression] >>
         ELSE IF ddl_item.table \in DOMAIN table_stats
         THEN << _heuristic_analysis(ddl_item.table, ddl_item.columns,
                                     table_stats[ddl_item.table].row_count,
                                     table_stats[ddl_item.table].column_stats) >>
         ELSE << _heuristic_analysis(ddl_item.table, ddl_item.columns, 0, <<>>) >>

RECURSIVE AnalyzeFrom(_, _, _, _)
AnalyzeFrom(original_ddl, answer, table_stats, i) ==
    IF i > Len(original_ddl) THEN <<>>
    ELSE AnalyzeOne(original_ddl[i], answer, table_stats)
         \o AnalyzeFrom(original_ddl, answer, table_stats, i + 1)

\* LLMAnalyzer._analyze_ddl_with_llm
_analyze_ddl_with_llm(original_ddl, answer, table_stats) ==
    AnalyzeFrom(original_ddl, answer, table_stats, 1)

\* The statement with the proposed columns taken as they are.
GenerateTable_unfiltered(analysis, catalog_name) ==
    Statement("CREATE TABLE", catalog_name, "optimized", analysis.table_name,
              analysis.original_columns,
              analysis.partition_columns,
              analysis.cluster_columns)

\* The CREATE TABLE statement of one analysis (lines 517-557).
GenerateTable(analysis, catalog_name) ==
    LET columns == analysis.original_columns
        Known(c) == \E i \in 1..Len(columns) : columns[i][1] = c
    IN  Statement("CREATE TABLE", catalog_name, "optimized", analysis.table_name,
                  columns,
                  SelectSeq(analysis.partition_columns, Known),
                  SelectSeq(analysis.cluster_columns, Known))

\* DDL generation without the leading schema statement.
_generate_ddl_deterministic_no_schema(tables_analysis, catalog_name) ==
    [i \in 1..Len(tables_analysis) |-> GenerateTable(tables_analysis[i], catalog_name)]

\* LLMAnalyzer._generate_ddl_deterministic
_generate_ddl_deterministic(tables_analysis, catalog_name) ==
    << Statement("CREATE SCHEMA IF NOT EXISTS", catalog_name, "optimized", "",
                 <<>>, <<>>, <<>>) >>
    \o [i \in 1..Len(tables_analysis) |-> GenerateTable(tables_analysis[i], catalog_name)]

(***************************************************************************)
(* LLMAnalyzer: query rewriting (AST path)                                 *)
(***************************************************************************)
DefaultLimit == 10000

\* LLMAnalyzer._extract_table_metadata: table name -> column names
_extract_table_metadata(ddl_list) ==
    LET idx == {i \in 1..Len(ddl_list) :
                    ddl_list[i].kind = "CREATE TABLE" /\ ddl_list[i].table # ""}
        names == {ddl_list[i].table : i \in idx}
        Last(t) == CHOOSE i \in idx :
                      /\ ddl_list[i].table = t
                      /\ \A j \in idx : ddl_list[j].table = t => j <= i
    IN  [t \in names |-> ColumnNames(ddl_list[Last(t)].columns)]

\* LLMAnalyzer._replace_table_paths_robust
_replace_table_paths_robust(query, catalog_name) ==
    IF query.catalog # <<>> /\ query.schema # <<>> /\ query.schema[1] # "optimized"
    THEN [query EXCEPT !.catalog = <<catalog_name>>, !.schema = <<"optimized">>]
    ELSE query

\* Projection items that sqlglot parses to an AggFunc node.
AggFuncItems == {"COUNT(*)", "SUM(amount)", "STDDEV(amount)"}

\* A detection that looks at the aggregate functions only.
_is_aggregation_sqlglot_no_group(query) ==
    \E i \in 1..Len(query.projection) : query.projection[i] \in AggFuncItems

\* LLMAnalyzer._is_aggregation_sqlglot
_is_aggregation_sqlglot(query) ==
    LET has_group == query.group_by # <<>>
        has_agg == \E i \in 1..Len(query.projection) : query.projection[i] \in AggFuncItems
    IN  has_group \/ has_agg

\* The keywords of _is_aggregation_query, and "LIMIT", contained in the
\* upper-cased text of a query.  The column rate_limit spells LIMIT.
ItemKeywords(item) ==
    CASE item = "COUNT(*)"    -> {"COUNT("}
      [] item = "SUM(amount)" -> {"SUM("}
      [] item = "rate_limit"  -> {"LIMIT"}
      [] OTHER                -> {}

TextKeywords(query) ==
    UNION {ItemKeywords(query.projection[i]) : i \in 1..Len(query.projection)}
    \cup (IF query.group_by # <<>> THEN {"GROUP BY"} ELSE {})
    \cup (IF query.limit # <<>> THEN {"LIMIT"} ELSE {})

\* LLMAnalyzer._is_aggregation_query
_is_aggregation_query(query) ==
    TextKeywords(query)
        \cap {"GROUP BY", "COUNT(", "SUM(", "AVG(", "MAX(", "MIN(", "HAVING"} # {}

\* A textual optimization that does not look for a limit in the text.
_apply_simple_optimizations_any_limit(query) ==
    IF ~_is_aggregation_query(query)
    THEN [query EXCEPT !.limit = <<DefaultLimit>>]
    ELSE query

\* LLMAnalyzer._apply_simple_optimizations
_apply_simple_optimizations(query) ==
    IF "LIMIT" \notin TextKeywords(query) /\ ~_is_aggregation_query(query)
    THEN [query EXCEPT !.limit = <<DefaultLimit>>]
    ELSE query

\* A replacement that never finds the columns of the table.
_replace_select_star_sqlglot_star_kept(query, table_metadata) == query

\* LLMAnalyzer._replace_select_star_sqlglot
_replace_select_star_sqlglot(query, table_metadata) ==
    IF /\ query.projection = <<"*">>
       /\ query.table \in DOMAIN table_metadata
       /\ table_metadata[query.table] # <<>>
    THEN [query EXCEPT !.projection = table_metadata[query.table]]
    ELSE query

\* LLMAnalyzer._apply_real_optimizations.  The textual optimization is used
\* when SQL parsing is disabled and when sqlglot raises on the query.
_apply_real_optimizations(query, table_metadata, enable_sql_parsing) ==
    IF ~enable_sql_parsing \/ ~query.parses
    THEN _apply_simple_optimizations(query)
    ELSE LET starred == _replace_select_star_sqlglot(query, table_metadata)
         IN  IF starred.limit = <<>> /\ ~_is_aggregation_sqlglot(starred)
             THEN [starred EXCEPT !.limit = <<DefaultLimit>>]
             ELSE starred

Reverse(seq) == [i \in 1..Len(seq) |-> seq[Len(seq) + 1 - i]]

\* The order in which the workers of the thread pool finish (as_completed):
\* the order of submission or its reverse.
FinishOrders == {"submitted", "reversed"}

InFinishOrder(seq, finish) == IF finish = "reversed" THEN Reverse(seq) ELSE seq

\* _optimize_one_query raises: the regular expression (and sqlglot before it)
\* cannot work on a query value that is not a string.
RewriteRaises(q) == ~q.query.is_str

\* A collection loop that stops at the first completed future.
_optimize_queries_parallel_first_completed(queries, new_ddl, catalog_name, finish) ==
    LET table_metadata == _extract_table_metadata(new_ddl)
        IsOk(q) == ~RewriteRaises(q)
        Rewritten(q) ==
            [queryid |-> q.queryid,
             query |-> _apply_real_optimizations(
                           _replace_table_paths_robust(q.query, catalog_name),
                           table_metadata, TRUE)]
        done == InFinishOrder(queries, finish)
        ok == SelectSeq(done, IsOk)
        failed == SelectSeq(done, RewriteRaises)
        results == [i \in 1..(IF ok = <<>> THEN 0 ELSE 1) |-> Rewritten(ok[i])]
        errors == [i \in 1..Len(failed) |->
                      [queryid |-> failed[i].queryid, error |-> "TypeError"]]
    IN  IF errors # <<>>
        THEN [raised |-> TRUE, errors |-> errors, results |-> <<>>]
        ELSE [raised |-> FALSE, errors |-> <<>>, results |-> results]

\* LLMAnalyzer._optimize_queries_parallel: either raises with details
\* optimization_errors = errors, or returns results.
_optimize_queries_parallel(queries, new_ddl, catalog_name, finish) ==
    LET table_metadata == _extract_table_metadata(new_ddl)
        IsOk(q) == ~RewriteRaises(q)
        Rewritten(q) ==
            [queryid |-> q.queryid,
             query |-> _apply_real_optimizations(
                           _replace_table_paths_robust(q.query, catalog_name),
                           table_metadata, TRUE)]
        done == InFinishOrder(queries, finish)
        ok == SelectSeq(done, IsOk)
        failed == SelectSeq(done, RewriteRaises)
        results == [i \in 1..Len(ok) |-> Rewritten(ok[i])]
        errors == [i \in 1..Len(failed) |->
                      [queryid |-> failed[i].queryid, error |-> "TypeError"]]
    IN  IF errors # <<>>
        THEN [raised |-> TRUE, errors |-> errors, results |-> <<>>]
        ELSE [raised |-> FALSE, errors |-> <<>>, results |-> results]

(***************************************************************************)
(* LLMAnalyzer: path validation and the pipeline                           *)
(***************************************************************************)

\* LLMAnalyzer._validate_full_paths: TRUE when no critical error is found.
_validate_full_paths(result) ==
    /\ \A i \in 1..Len(result.ddl) :
          result.ddl[i].kind = "CREATE TABLE" => result.ddl[i].schema = "optimized"
    /\ \A i \in 1..Len(result.migrations) :
          result.migrations[i].kind = "INSERT INTO"
              => result.migrations[i].schema = "optimized"

\* Messages of the exceptions a pipeline raises, with the markers that
\* _process_task looks for in the lower-cased text (lines 211-216).
ProtocolExhaustedMsg ==
    [text |-> "model returned no valid JSON for 'produce_migrations' after 3 attempts",
     markers |-> {"json", "model_did_not_return"}]
PathValidationMsg ==
    [text |-> "path validation failed: critical errors",
     markers |-> {"validation"}]

NoResult == [ddl |-> <<>>, migrations |-> <<>>, queries |-> <<>>, meta |-> <<>>]
NoExc == [text |-> "", markers |-> {}]

InsertInto(cat, sch, tbl) == Statement("INSERT INTO", cat, sch, tbl, <<>>, <<>>, <<>>)

(***************************************************************************)
(* LLMAnalyzer: quality evaluation                                         *)
(*                                                                         *)
(* A JSON value that may stand under "score" is a record of its type and   *)
(* its number: the integer itself, or tenths for a float (855 is 85.5),    *)
(* 1 / 0 for true / false.                                                 *)
(***************************************************************************)
JsonInt(n) == [type |-> "int", value |-> n]
JsonFloat(tenths) == [type |-> "float", value |-> tenths]
JsonBool(b) == [type |-> "bool", value |-> IF b THEN 1 ELSE 0]
JsonStr == [type |-> "str", value |-> 0]
JsonNull == [type |-> "null", value |-> 0]
NoScore == [type |-> "missing", value |-> 0]

\* What the evaluation model answers:
\*   "raises"      the request raises
\*   "no_content"  a completion whose content is None
\*   "no_json"     a completion without a JSON object
\*   "json"        a completion with a JSON object, score as given
EvalAnswer(kind, score) == [kind |-> kind, score |-> score]

EvalAnswers ==
    { EvalAnswer("raises", NoScore), EvalAnswer("no_content", NoScore),
      EvalAnswer("no_json", NoScore), EvalAnswer("json", NoScore),
      EvalAnswer("json", JsonInt(85)), EvalAnswer("json", JsonInt(1)),
      EvalAnswer("json", JsonInt(100)), EvalAnswer("json", JsonInt(0)),
      EvalAnswer("json", JsonInt(101)), EvalAnswer("json", JsonInt(-5)),
      EvalAnswer("json", JsonFloat(855)), EvalAnswer("json", JsonFloat(5)),
      EvalAnswer("json", JsonFloat(1004)), EvalAnswer("json", JsonStr),
      EvalAnswer("json", JsonNull), EvalAnswer("json", JsonBool(TRUE)) }

DefaultScore == JsonInt(70)

\* 1 <= score <= 100 (line 314); not defined for a string or null.
Comparable(score) == score.type \in {"int", "float", "bool"}

\* A range test with the upper bound only.
InRange_no_lower_bound(score) ==
    IF score.type = "float"
    THEN score.value <= 1000
    ELSE score.value <= 100

InRange(score) ==
    IF score.type = "float"
    THEN 10 <= score.value /\ score.value <= 1000
    ELSE 1 <= score.value /\ score.value <= 100

\* LLMAnalyzer._evaluate_result_internal: the returned score.  Every
\* exception (the request, None.strip(), the comparison of a string or null
\* with a number) ends in the except clause of line 357.
_evaluate_result_internal(answer) ==
    IF answer.kind # "json" THEN DefaultScore
    ELSE LET score == IF answer.score.type = "missing" THEN DefaultScore
                      ELSE answer.score
         IN  IF ~Comparable(score) THEN DefaultScore
             ELSE IF ~InRange(score) THEN DefaultScore
             ELSE score

(***************************************************************************)
(* LLMAnalyzer: one run of the pipeline                                    *)
(***************************************************************************)

\* The decimal text of n contains "401".
Has401(n) == \E k \in 0..6 : (n \div (10 ^ k)) % 1000 = 401

\* The message of the error raised by _optimize_queries_parallel (lines
\* 702-705).  It names the number of failed queries and the number of
\* queries, and holds no marker but the "401" a count may spell.
OptimizationFailedMsg(failed, total) ==
    [text |-> "could not optimize n of m queries", n |-> failed, m |-> total,
     markers |-> IF Has401(failed) \/ Has401(total) THEN {"401"} ELSE {}]

\* "Неожиданная ошибка: <text>": an exception other than LLMAnalyzerError,
\* wrapped by lines 236-238; the markers are those of its text.
UnexpectedMsg(markers) == [text |-> "unexpected error", markers |-> markers]

\* What is outside the pipeline in one run:
\*   source      - the data source behind the url
\*   strategy    - the producer's per-table strategy (<<>>: failed, heuristic used)
\*   migrations  - <<>> when _call_with_retries exhausted its attempts, else
\*                 <<list>> with the validated "migrations" array
\*   finish      - the order in which the rewrite workers finish
\*   evaluation  - the answer of the evaluation model
\*   unexpected  - <<>>, or <<markers>> when starting the thread pool raises
\*                 an exception with these markers in its text
\*   pydantic    - the major version of the installed pydantic: "v1" converts a
\*                 float to int by truncation, "v2" rejects a fractional float
Env(source, strategy, migrations, finish, evaluation, unexpected, pydantic) ==
    [source |-> source, strategy |-> strategy, migrations |-> migrations,
     finish |-> finish, evaluation |-> evaluation, unexpected |-> unexpected,
     pydantic |-> pydantic]

NoSource == [driver |-> "refused", query |-> "ok"]

Strategies ==
    { <<>>,
      << [partition_columns |-> <<"created_at", "ghost">>,
          cluster_columns |-> <<"id">>, compression |-> "ZSTD"] >> }

MigrationAnswers ==
    { <<>>,
      << <<>> >>,
      << << InsertInto("test", "optimized", "users") >> >>,
      << << InsertInto("test", "public", "users") >> >>,
      << << [InsertInto("test", "optimized", "users") EXCEPT !.str_values = FALSE] >> >> }

\* The runs explored together with the task manager.
Envs ==
    { Env(NoSource, <<>>, << << InsertInto("test", "optimized", "users") >> >>,
          "submitted", EvalAnswer("json", JsonInt(85)), <<>>, "v1"),
      Env(NoSource,
          << [partition_columns |-> <<"created_at", "ghost">>,
              cluster_columns |-> <<"id">>, compression |-> "ZSTD"] >>,
          << <<>> >>, "submitted", EvalAnswer("no_json", NoScore), <<>>, "v1"),
      Env(NoSource, <<>>, <<>>, "submitted", EvalAnswer("raises", NoScore), <<>>, "v1"),
      Env(NoSource, <<>>, << << InsertInto("test", "public", "users") >> >>,
          "submitted", EvalAnswer("raises", NoScore), <<>>, "v1"),
      Env(NoSource, <<>>,
          << << [InsertInto("test", "optimized", "users")
                    EXCEPT !.str_values = FALSE] >> >>,
          "submitted", EvalAnswer("raises", NoScore), <<>>, "v1") }

\* The result dict of lines 196-209, before the evaluation.
ResultDict(new_ddl, migrations, optimized_queries) ==
    [ddl |-> new_ddl, migrations |-> migrations, queries |-> optimized_queries,
     meta |-> << [quality_score |-> <<>>] >>]

\* Lines 224-225: the score is stored in the metadata of the result.
WithScore(result, evaluation_score) ==
    [result EXCEPT !.meta = << [quality_score |-> <<evaluation_score>>] >>]

Raise(exc) == [raised |-> TRUE, exc |-> exc, value |-> NoResult]

\* LLMAnalyzer.analyze_database
analyze_database(request_data, env) ==
    LET catalog_name == PipelineCatalog(request_data)
        statistics == CollectStatistics(request_data.ddl, env.source)
        tables_analysis ==
            _analyze_ddl_with_llm(request_data.ddl, env.strategy, statistics.table_stats)
        new_ddl == _generate_ddl_deterministic(tables_analysis, catalog_name)
        optimized ==
            _optimize_queries_parallel(request_data.queries, new_ddl, catalog_name,
                                       env.finish)
        result == ResultDict(new_ddl, env.migrations[1], optimized.results)
    IN  IF env.migrations = <<>> THEN Raise(ProtocolExhaustedMsg)
        ELSE IF env.unexpected # <<>> THEN Raise(UnexpectedMsg(env.unexpected[1]))
        ELSE IF optimized.raised
        THEN Raise(OptimizationFailedMsg(Len(optimized.errors), Len(request_data.queries)))
        ELSE IF ~_validate_full_paths(result) THEN Raise(PathValidationMsg)
        ELSE [raised |-> FALSE, exc |-> NoExc,
              value |-> WithScore(result, _evaluate_result_internal(env.evaluation))]

(***************************************************************************)
(* SimpleTaskManager: results                                              *)
(***************************************************************************)

\* SimpleTaskManager._extract_catalog_from_url
_extract_catalog_from_url(url) ==
    IF url.has_jdbc_slashes /\ url.last_segment # "" THEN url.last_segment
    ELSE "default_catalog"

\* pydantic's validation of an Optional[int] field: <<n>> for the integer the
\* field gets, <<>> when the value is rejected.  A bool is an int; a float
\* without fraction is its integer; a fractional float is truncated by
\* pydantic 1 and rejected by pydantic 2.
IntField(score, pydantic) ==
    CASE score.type \in {"int", "bool"} -> <<score.value>>
      [] score.type = "float" /\ score.value % 10 = 0 -> <<score.value \div 10>>
      [] score.type = "float" /\ pydantic = "v1" ->
            << IF score.value >= 0 THEN score.value \div 10
               ELSE -((-score.value) \div 10) >>
      [] OTHER -> <<>>

\* models.OptimizationResult: the validation of the constructor.
\* ddl and migrations are List[Dict[str, str]].
OptimizationResultValid(ddl, migrations) ==
    /\ \A i \in 1..Len(ddl) : ddl[i].str_values
    /\ \A i \in 1..Len(migrations) : migrations[i].str_values

OptimizationResult(ddl, migrations, queries, quality_score) ==
    [ddl |-> ddl, migrations |-> migrations, queries |-> queries,
     quality_score |-> quality_score]

\* SimpleTaskManager._create_simple_result
_create_simple_result(request) ==
    LET catalog_name == _extract_catalog_from_url(request.url)
    IN  OptimizationResult(
            << Statement("CREATE SCHEMA", catalog_name, "optimized_schema", "",
                         <<>>, <<>>, <<>>),
               Statement("CREATE TABLE", catalog_name, "optimized_schema",
                         "optimized_table",
                         << <<"id", "INTEGER">>, <<"data", "TEXT">> >>, <<>>, <<>>) >>,
            << InsertInto(catalog_name, "optimized_schema", "optimized_table") >>,
            [i \in 1..Len(request.queries) |->
                [queryid |-> request.queries[i].queryid,
                 query |-> Sql(<<"*">>, <<catalog_name>>, <<"optimized_schema">>,
                               "optimized_table", <<>>)]],
            <<30>>)

\* SimpleTaskManager._create_result_from_llm
_create_result_from_llm(llm_result, request, pydantic) ==
    LET ddl ==
            IF llm_result.ddl = <<>>
            THEN << Statement("CREATE SCHEMA IF NOT EXISTS",
                              _extract_catalog_from_url(request.url),
                              "optimized_schema", "", <<>>, <<>>, <<>>) >>
            ELSE llm_result.ddl
        migrations ==
            IF llm_result.migrations = <<>>
            THEN << Statement("-- No migrations needed", "", "", "", <<>>, <<>>, <<>>) >>
            ELSE llm_result.migrations
        queries ==
            IF llm_result.queries = <<>>
            THEN [i \in 1..Len(request.queries) |->
                    [queryid |-> request.queries[i].queryid,
                     query |-> Sql(<<"-- Optimized version of">>, <<>>, <<>>, "", <<>>)]]
            ELSE llm_result.queries
        quality_score ==
            IF llm_result.meta # <<>> /\ llm_result.meta[1].quality_score # <<>>
            THEN llm_result.meta[1].quality_score[1]
            ELSE JsonInt(50)
    IN  IF OptimizationResultValid(ddl, migrations)
           /\ IntField(quality_score, pydantic) # <<>>
        THEN OptimizationResult(ddl, migrations, queries,
                                IntField(quality_score, pydantic))
        ELSE _create_simple_result(request)

(***************************************************************************)
(* SimpleTaskManager: state                                                *)
(***************************************************************************)
SleepSeconds == 2

\* Seconds one run of analyze_database may take.
Durations == {1, 90}

TimeoutSeconds == task_timeout_minutes * 60

NewTask(request) ==
    [request |-> request, status |-> "RUNNING", result |-> <<>>, error |-> <<>>]

\* Retention window the service is configured with (api.py).
cleanup_after_hours == 1

NoReply == [raised |-> FALSE, task_id |-> 0]

InitManager ==
    /\ max_workers \in {1, MaxWorkers}
    /\ max_queue_size \in {0, MaxQueue}
    /\ task_timeout_minutes \in {0, MaxTimeoutMinutes}
    /\ use_llm \in BOOLEAN
    /\ tasks = <<>>
    /\ running_tasks = 0
    /\ sem_value = max_workers
    /\ error_stats = [timeout_errors |-> 0, llm_errors |-> 0, validation_errors |-> 0,
                      database_errors |-> 0, total_errors |-> 0, queue_full_errors |-> 0]
    /\ next_id = 0
    /\ pc = [t \in TaskIds |-> "none"]
    /\ pending_exc = [t \in TaskIds |-> NoExc]
    /\ elapsed = [t \in TaskIds |-> 0]
    /\ sweep_due = FALSE
    /\ age = [t \in TaskIds |-> 0]
    /\ reply = NoReply

InitRetryIdle ==
    /\ rt_max_attempts = 0
    /\ rt_pc = "idle"
    /\ rt_attempt = 0
    /\ rt_all_errors = <<>>
    /\ rt_calls = <<>>
    /\ rt_return = <<>>
    /\ rt_raised = <<>>

\* analyze_database before its first statement.
NoLocals ==
    [catalog_name |-> "", table_stats |-> NoStats, db_connector |-> <<>>,
     tables_analysis |-> <<>>, new_ddl |-> <<>>, migrations |-> <<>>,
     optimized_queries |-> <<>>, evaluation_score |-> <<>>]

InitPipelineIdle ==
    /\ pl_env = Env(NoSource, <<>>, <<>>, "submitted", EvalAnswer("raises", NoScore),
                    <<>>, "v1")
    /\ pl_stage = "idle"
    /\ pl_trace = <<>>
    /\ pl_locals = NoLocals
    /\ pl_details = <<>>

InitAnalysisIdle ==
    /\ an_ddl = <<>>
    /\ an_table_stats = <<>>
    /\ an_i = 0
    /\ an_outcomes = <<>>
    /\ an_analysis = <<>>
    /\ an_new_ddl = <<>>

\* The runs modelled further below have not started.
InitLoopIdle ==
    /\ lp_eager = FALSE
    /\ lp_max_workers = 0
    /\ lp_sem = 0
    /\ lp_running = 0
    /\ lp_pc = <<>>
    /\ lp_stage = <<>>
    /\ lp_timer = <<>>
    /\ lp_served = 0

InitThreadsIdle ==
    /\ th_queries = <<>>
    /\ th_pool = 0
    /\ th_pc = <<>>
    /\ th_lock = 0
    /\ th_errors = <<>>
    /\ th_results = <<>>
    /\ th_collected = {}
    /\ th_main = "idle"

InitHealthIdle ==
    /\ hc_stats = <<>>
    /\ hc_report = <<>>

InitExIdle == InitAnalysisIdle /\ InitLoopIdle /\ InitThreadsIdle /\ InitHealthIdle

InitHeuristicIdle ==
    /\ InitExIdle
    /\ ha_columns = <<>>
    /\ ha_row_count = 0
    /\ ha_column_stats = <<>>
    /\ ha_analysis = <<>>

InitPathsIdle ==
    /\ pq_query = <<>>
    /\ pq_catalog_name = <<>>
    /\ pq_outputs = <<>>
    /\ pq_new_ddl = <<>>
    /\ pq_enable_sql_parsing = FALSE
    /\ InitHeuristicIdle

Init == InitManager /\ InitRetryIdle /\ InitPipelineIdle /\ InitPathsIdle

cfg_vars == <<max_workers, max_queue_size, task_timeout_minutes, use_llm>>

(***************************************************************************)
(* SimpleTaskManager: operations                                           *)
(***************************************************************************)
Bump(stats, counter) == [stats EXCEPT ![counter] = @ + 1]

\* create_task with the ceiling test off by one (> for >=).
CreateTask_late_ceiling(request) ==
    /\ IF max_queue_size > 0 /\ Cardinality(DOMAIN tasks) > max_queue_size
       THEN /\ error_stats.queue_full_errors < MaxRejects
            /\ error_stats' = Bump(error_stats, "queue_full_errors")
            /\ reply' = [raised |-> TRUE, task_id |-> 0]
            /\ UNCHANGED <<tasks, next_id, pc>>
       ELSE /\ next_id < MaxSubmit
            /\ next_id' = next_id + 1
            /\ tasks' = (next_id' :> NewTask(request)) @@ tasks
            /\ pc' = [pc EXCEPT ![next_id'] = "waiting"]
            /\ reply' = [raised |-> FALSE, task_id |-> next_id']
            /\ UNCHANGED error_stats
    /\ UNCHANGED <<cfg_vars, running_tasks, sem_value, pending_exc, elapsed, sweep_due,
                   age, aux_vars>>

\* create_task(request), as called by POST /new (api.py lines 255-261).
CreateTask(request) ==
    /\ IF max_queue_size > 0 /\ Cardinality(DOMAIN tasks) >= max_queue_size
       THEN /\ error_stats.queue_full_errors < MaxRejects
            /\ error_stats' = Bump(error_stats, "queue_full_errors")
            /\ reply' = [raised |-> TRUE, task_id |-> 0]
            /\ UNCHANGED <<tasks, next_id, pc>>
       ELSE /\ next_id < MaxSubmit
            /\ next_id' = next_id + 1
            /\ tasks' = (next_id' :> NewTask(request)) @@ tasks
            /\ pc' = [pc EXCEPT ![next_id'] = "waiting"]
            /\ reply' = [raised |-> FALSE, task_id |-> next_id']
            /\ UNCHANGED error_stats
    /\ UNCHANGED <<cfg_vars, running_tasks, sem_value, pending_exc, elapsed, sweep_due,
                   age, aux_vars>>

\* get_task_status
get_task_status(task_id) ==
    IF task_id \in DOMAIN tasks THEN <<tasks[task_id].status>> ELSE <<>>

\* get_task_result
get_task_result(task_id) ==
    IF task_id \in DOMAIN tasks /\ tasks[task_id].status = "DONE"
    THEN tasks[task_id].result
    ELSE <<>>

\* get_task_error
get_task_error(task_id) ==
    IF task_id \in DOMAIN tasks /\ tasks[task_id].status = "FAILED"
    THEN tasks[task_id].error
    ELSE <<>>

\* get_stats
get_stats ==
    LET Count(st) == Cardinality({t \in DOMAIN tasks : tasks[t].status = st})
        running_count == Count("RUNNING")
    IN  [total_tasks |-> Cardinality(DOMAIN tasks),
         running_tasks |-> running_count,
         actually_processing |-> running_tasks,
         queued_tasks |-> IF running_count > running_tasks
                          THEN running_count - running_tasks ELSE 0,
         completed_tasks |-> Count("DONE"),
         failed_tasks |-> Count("FAILED"),
         max_workers |-> max_workers,
         max_queue_size |-> max_queue_size,
         error_statistics |-> error_stats]

\* A response model that copies the whole stored result.
from_optimization_result_whole(result) == result

\* models.TaskResultResponse.from_optimization_result
from_optimization_result(result) ==
    [ddl |-> result.ddl, migrations |-> result.migrations, queries |-> result.queries]

\* GET /getresult (api.py get_task_result): the response for a task id.
GetResultResponse(task_id) ==
    LET status == get_task_status(task_id)
        result == get_task_result(task_id)
    IN  IF status = <<>>
        THEN [op |-> "getresult", task_id |-> task_id, code |-> 404,
              detail |-> "not_found", body |-> <<>>]
        ELSE IF status[1] = "RUNNING"
        THEN [op |-> "getresult", task_id |-> task_id, code |-> 202,
              detail |-> "still_running", body |-> <<>>]
        ELSE IF status[1] = "FAILED"
        THEN [op |-> "getresult", task_id |-> task_id, code |-> 500,
              detail |-> "task_failed", body |-> get_task_error(task_id)]
        ELSE IF result # <<>>
        THEN [op |-> "getresult", task_id |-> task_id, code |-> 200,
              detail |-> "ok", body |-> << from_optimization_result(result[1]) >>]
        ELSE [op |-> "getresult", task_id |-> task_id, code |-> 500,
              detail |-> "result_unavailable", body |-> <<>>]

\* _process_task called without waiting for the semaphore.
Acquire_no_semaphore(t) ==
    /\ pc[t] = "waiting"
    /\ IF t \in DOMAIN tasks
       THEN /\ sem_value' = sem_value - 1
            /\ running_tasks' = running_tasks + 1
            /\ pc' = [pc EXCEPT ![t] = "processing"]
       ELSE /\ pc' = [pc EXCEPT ![t] = "finished"]
            /\ UNCHANGED <<sem_value, running_tasks>>
    /\ UNCHANGED <<cfg_vars, tasks, error_stats, next_id, pending_exc, elapsed,
                   sweep_due, age, reply, aux_vars>>

\* _process_task_with_semaphore: the semaphore is acquired, and _process_task
\* runs up to its await of asyncio.wait_for (lines 154-179).
Acquire(t) ==
    /\ pc[t] = "waiting"
    /\ sem_value > 0
    /\ IF t \in DOMAIN tasks
       THEN /\ sem_value' = sem_value - 1
            /\ running_tasks' = running_tasks + 1
            /\ pc' = [pc EXCEPT ![t] = "processing"]
       ELSE /\ pc' = [pc EXCEPT ![t] = "finished"]
            /\ UNCHANGED <<sem_value, running_tasks>>
    /\ UNCHANGED <<cfg_vars, tasks, error_stats, next_id, pending_exc, elapsed,
                   sweep_due, age, reply, aux_vars>>

\* A pipeline that wait_for does not cancel: it also runs, and stores its
\* result, after _process_task has finished with the task.
ExecuteLLM_detached(t) ==
    /\ pc[t] \in {"processing", "finished"}
    /\ t \in DOMAIN tasks
    /\ use_llm
    /\ \E env \in Envs, d \in Durations :
          LET out == analyze_database(tasks[t].request, env)
          IN  /\ elapsed' = [elapsed EXCEPT ![t] = d]
              /\ IF out.raised
                 THEN /\ pending_exc' = [pending_exc EXCEPT ![t] = out.exc]
                      /\ pc' = [pc EXCEPT ![t] = "raised"]
                      /\ UNCHANGED tasks
                 ELSE /\ tasks' = [tasks EXCEPT
                            ![t].result = << _create_result_from_llm(out.value,
                                                tasks[t].request, env.pydantic) >>,
                            ![t].status = "DONE"]
                      /\ pc' = [pc EXCEPT ![t] = "returned"]
                      /\ UNCHANGED pending_exc
    /\ UNCHANGED <<cfg_vars, running_tasks, sem_value, error_stats, next_id, sweep_due,
                   age, reply, aux_vars>>

\* _execute_task with the LLM analyzer (lines 234-260): analyze_database is a
\* synchronous call, the event loop runs nothing else until it returns or raises.
ExecuteLLM(t) ==
    /\ pc[t] = "processing"
    /\ use_llm
    /\ TimeoutSeconds > 0
    /\ \E env \in Envs, d \in Durations :
          LET out == analyze_database(tasks[t].request, env)
          IN  /\ elapsed' = [elapsed EXCEPT ![t] = d]
              /\ IF out.raised
                 THEN /\ pending_exc' = [pending_exc EXCEPT ![t] = out.exc]
                      /\ pc' = [pc EXCEPT ![t] = "raised"]
                      /\ UNCHANGED tasks
                 ELSE /\ tasks' = [tasks EXCEPT
                            ![t].result = << _create_result_from_llm(out.value,
                                                tasks[t].request, env.pydantic) >>,
                            ![t].status = "DONE"]
                      /\ pc' = [pc EXCEPT ![t] = "returned"]
                      /\ UNCHANGED pending_exc
    /\ UNCHANGED <<cfg_vars, running_tasks, sem_value, error_stats, next_id, sweep_due,
                   age, reply, aux_vars>>

\* _execute_task setting the status before (and without) attaching the result.
ExecuteSimple_no_result(t) ==
    /\ pc[t] = "processing"
    /\ ~use_llm
    /\ SleepSeconds < TimeoutSeconds
    /\ elapsed' = [elapsed EXCEPT ![t] = SleepSeconds]
    /\ tasks' = [tasks EXCEPT ![t].status = "DONE"]
    /\ pc' = [pc EXCEPT ![t] = "returned"]
    /\ UNCHANGED <<cfg_vars, running_tasks, sem_value, error_stats, next_id,
                   pending_exc, sweep_due, age, reply, aux_vars>>

\* _execute_task without the analyzer (lines 253-260): asyncio.sleep(2), then
\* the simple result.  The sleep ends before the timeout only if it is shorter.
ExecuteSimple(t) ==
    /\ pc[t] = "processing"
    /\ ~use_llm
    /\ SleepSeconds < TimeoutSeconds
    /\ elapsed' = [elapsed EXCEPT ![t] = SleepSeconds]
    /\ tasks' = [tasks EXCEPT ![t].result = << _create_simple_result(tasks[t].request) >>,
                              ![t].status = "DONE"]
    /\ pc' = [pc EXCEPT ![t] = "returned"]
    /\ UNCHANGED <<cfg_vars, running_tasks, sem_value, error_stats, next_id,
                   pending_exc, sweep_due, age, reply, aux_vars>>

\* _process_task returning without leaving the semaphore.
ProcessReturn_slot_kept(t) ==
    /\ pc[t] = "returned"
    /\ running_tasks' = running_tasks - 1
    /\ elapsed' = [elapsed EXCEPT ![t] = 0]
    /\ pc' = [pc EXCEPT ![t] = "finished"]
    /\ UNCHANGED <<cfg_vars, tasks, sem_value, error_stats, next_id, pending_exc,
                   sweep_due, age, reply, aux_vars>>

\* _process_task after wait_for returned (lines 181-189, 224-225) and the
\* release of the semaphore.
ProcessReturn(t) ==
    /\ pc[t] = "returned"
    /\ running_tasks' = running_tasks - 1
    /\ sem_value' = sem_value + 1
    /\ elapsed' = [elapsed EXCEPT ![t] = 0]
    /\ pc' = [pc EXCEPT ![t] = "finished"]
    /\ UNCHANGED <<cfg_vars, tasks, error_stats, next_id, pending_exc, sweep_due, age,
                   reply, aux_vars>>

\* A classification that counts every category whose marker is in the text.
ClassifyError_every_category(stats, exc) ==
    LET llm == IF "json" \in exc.markers \/ "model_did_not_return" \in exc.markers
               THEN Bump(stats, "llm_errors") ELSE stats
        validation == IF "validation" \in exc.markers
                      THEN Bump(llm, "validation_errors") ELSE llm
        database == IF exc.markers \cap {"401", "unauthorized", "connection"} # {}
                    THEN Bump(validation, "database_errors") ELSE validation
    IN  Bump(database, "total_errors")

\* The counters the handler of lines 204-219 increments for an exception.
ClassifyError(stats, exc) ==
    LET by_kind ==
            IF "json" \in exc.markers \/ "model_did_not_return" \in exc.markers
            THEN Bump(stats, "llm_errors")
            ELSE IF "validation" \in exc.markers
            THEN Bump(stats, "validation_errors")
            ELSE IF exc.markers \cap {"401", "unauthorized", "connection"} # {}
            THEN Bump(stats, "database_errors")
            ELSE stats
    IN  Bump(by_kind, "total_errors")

\* The exception handler marking the task FAILED without counting the error.
ProcessException_not_counted(t) ==
    /\ pc[t] = "raised"
    /\ tasks' = [tasks EXCEPT ![t].status = "FAILED",
                              ![t].error = << [kind |-> "exception",
                                               cause |-> pending_exc[t]] >>]
    /\ pending_exc' = [pending_exc EXCEPT ![t] = NoExc]
    /\ elapsed' = [elapsed EXCEPT ![t] = 0]
    /\ running_tasks' = running_tasks - 1
    /\ sem_value' = sem_value + 1
    /\ pc' = [pc EXCEPT ![t] = "finished"]
    /\ UNCHANGED <<cfg_vars, error_stats, next_id, sweep_due, age, reply, aux_vars>>

\* _process_task when wait_for raised the pipeline's exception (lines 204-225).
ProcessException(t) ==
    /\ pc[t] = "raised"
    /\ tasks' = [tasks EXCEPT ![t].status = "FAILED",
                              ![t].error = << [kind |-> "exception",
                                               cause |-> pending_exc[t]] >>]
    /\ error_stats' = ClassifyError(error_stats, pending_exc[t])
    /\ pending_exc' = [pending_exc EXCEPT ![t] = NoExc]
    /\ elapsed' = [elapsed EXCEPT ![t] = 0]
    /\ running_tasks' = running_tasks - 1
    /\ sem_value' = sem_value + 1
    /\ pc' = [pc EXCEPT ![t] = "finished"]
    /\ UNCHANGED <<cfg_vars, next_id, sweep_due, age, reply, aux_vars>>

\* The timeout handler marking the task FAILED without storing the message.
ProcessTimeout_no_error(t) ==
    /\ pc[t] = "processing"
    /\ \/ TimeoutSeconds <= 0
       \/ ~use_llm /\ TimeoutSeconds <= SleepSeconds
    /\ tasks' = [tasks EXCEPT ![t].status = "FAILED"]
    /\ error_stats' = Bump(Bump(error_stats, "timeout_errors"), "total_errors")
    /\ running_tasks' = running_tasks - 1
    /\ sem_value' = sem_value + 1
    /\ pc' = [pc EXCEPT ![t] = "finished"]
    /\ UNCHANGED <<cfg_vars, next_id, pending_exc, elapsed, sweep_due, age, reply,
                   aux_vars>>

\* _process_task when wait_for raised TimeoutError (lines 191-202, 224-225):
\* the timeout is not positive (the pipeline is cancelled before it starts) or
\* the timer fires while the pipeline is suspended in its sleep.
ProcessTimeout(t) ==
    /\ pc[t] = "processing"
    /\ \/ TimeoutSeconds <= 0
       \/ ~use_llm /\ TimeoutSeconds <= SleepSeconds
    /\ tasks' = [tasks EXCEPT ![t].status = "FAILED",
                              ![t].error = << [kind |-> "timeout", cause |-> NoExc] >>]
    /\ error_stats' = Bump(Bump(error_stats, "timeout_errors"), "total_errors")
    /\ running_tasks' = running_tasks - 1
    /\ sem_value' = sem_value + 1
    /\ pc' = [pc EXCEPT ![t] = "finished"]
    /\ UNCHANGED <<cfg_vars, next_id, pending_exc, elapsed, sweep_due, age, reply,
                   aux_vars>>

Terminal(t) == t \in DOMAIN tasks /\ tasks[t].status \in {"DONE", "FAILED"}

\* cleanup_old_tasks without the status test: every task is removed.
cleanup_old_tasks_any_status(hours) ==
    LET old_tasks == DOMAIN tasks
    IN  [t \in DOMAIN tasks \ old_tasks |-> tasks[t]]

\* cleanup_old_tasks(hours): the registry after the call.
cleanup_old_tasks(hours) ==
    LET old_tasks == {t \in DOMAIN tasks : tasks[t].status \in {"DONE", "FAILED"}}
    IN  [t \in DOMAIN tasks \ old_tasks |-> tasks[t]]

\* A round of the loop that removes nothing.
PeriodicCleanup_nothing_removed ==
    /\ sweep_due
    /\ sweep_due' = FALSE
    /\ UNCHANGED <<cfg_vars, tasks, age, running_tasks, sem_value, error_stats, next_id, pc,
                   pending_exc, elapsed, reply, aux_vars>>

\* _periodic_cleanup: one round of the loop, when its sleep of an hour is over.
PeriodicCleanup ==
    /\ sweep_due
    /\ tasks' = cleanup_old_tasks(cleanup_after_hours)
    /\ age' = [t \in TaskIds |-> IF t \in DOMAIN tasks' THEN age[t] ELSE 0]
    /\ sweep_due' = FALSE
    /\ UNCHANGED <<cfg_vars, running_tasks, sem_value, error_stats, next_id, pc,
                   pending_exc, elapsed, reply, aux_vars>>

\* An hour passes: terminal tasks age (ages beyond the retention window are
\* not distinguished) and the sleep of _periodic_cleanup expires.
Tick ==
    /\ age' = [t \in TaskIds |->
                 IF Terminal(t) /\ age[t] < cleanup_after_hours
                 THEN age[t] + 1 ELSE age[t]]
    /\ sweep_due' = TRUE
    /\ UNCHANGED <<cfg_vars, tasks, running_tasks, sem_value, error_stats, next_id, pc,
                   pending_exc, elapsed, reply, aux_vars>>

Next ==
    \/ \E request \in Requests : CreateTask(request)
    \/ \E t \in TaskIds : Acquire(t)
    \/ \E t \in TaskIds : ExecuteLLM(t)
    \/ \E t \in TaskIds : ExecuteSimple(t)
    \/ \E t \in TaskIds : ProcessReturn(t)
    \/ \E t \in TaskIds : ProcessException(t)
    \/ \E t \in TaskIds : ProcessTimeout(t)
    \/ PeriodicCleanup
    \/ Tick

Spec == Init /\ [][Next]_vars

(***************************************************************************)
(* _execute_task with the LLM analyzer, stage by stage                     *)
(*                                                                         *)
(* One task (id 1) holds the only worker slot; analyze_database runs its   *)
(* stages in program order, then _execute_task builds the result; the      *)
(* handlers of _process_task end the run.  Without the analyzer the simple *)
(* pipeline runs, or is cancelled at once when the timeout is zero.        *)
(***************************************************************************)
UnexpectedTexts ==
    { {}, {"connection"}, {"validation", "401"}, {"json", "validation", "connection"},
      {"unauthorized"}, {"model_did_not_return", "connection"} }

GoodMigrations == << << InsertInto("test", "optimized", "users") >> >>

GoodEvaluation == EvalAnswer("json", JsonInt(85))

\* The runs explored: every data source with every strategy; every answer
\* for the migrations with every finishing order and unexpected exception;
\* every answer of the evaluation model with both pydantic versions.
PipelineEnvs ==
    { Env(source, strategy, migrations, "submitted", GoodEvaluation, <<>>, "v1") :
        source \in DataSources, strategy \in Strategies,
        migrations \in {GoodMigrations, << <<>> >>} }
    \cup
    { Env(NoSource, <<>>, migrations, finish, GoodEvaluation, unexpected, "v1") :
        migrations \in MigrationAnswers, finish \in FinishOrders,
        unexpected \in {<<>>} \cup {<<m>> : m \in UnexpectedTexts} }
    \cup
    { Env(NoSource, <<>>, migrations, "submitted", evaluation, <<>>, pydantic) :
        migrations \in {GoodMigrations,
                        << << [InsertInto("test", "optimized", "users")
                                  EXCEPT !.str_values = FALSE] >> >>},
        evaluation \in EvalAnswers, pydantic \in {"v1", "v2"} }

InitPipeline ==
    /\ max_workers = 1
    /\ max_queue_size = 0
    /\ use_llm \in BOOLEAN
    /\ task_timeout_minutes \in IF use_llm THEN {MaxTimeoutMinutes}
                                ELSE {0, MaxTimeoutMinutes}
    /\ \E request \in Requests \cup OddRequests : tasks = (1 :> NewTask(request))
    /\ running_tasks = 1
    /\ sem_value = 0
    /\ error_stats = [timeout_errors |-> 0, llm_errors |-> 0, validation_errors |-> 0,
                      database_errors |-> 0, total_errors |-> 0, queue_full_errors |-> 0]
    /\ next_id = 1
    /\ pc = [t \in TaskIds |-> IF t = 1 THEN "processing" ELSE "none"]
    /\ pending_exc = [t \in TaskIds |-> NoExc]
    /\ elapsed = [t \in TaskIds |-> 0]
    /\ sweep_due = FALSE
    /\ age = [t \in TaskIds |-> 0]
    /\ reply = [raised |-> FALSE, task_id |-> 1]
    /\ InitRetryIdle
    /\ InitPathsIdle
    /\ IF use_llm THEN pl_env \in PipelineEnvs
       ELSE pl_env = Env(NoSource, <<>>, <<>>, "submitted", EvalAnswer("raises", NoScore),
                         <<>>, "v1")
    /\ pl_stage = IF use_llm THEN "statistics" ELSE "idle"
    /\ pl_trace = <<>>
    /\ pl_locals = NoLocals
    /\ pl_details = <<>>

request_data == tasks[1].request

\* A stage completes: its results are in the locals and the next stage is due.
StageDone(stage, locals, next) ==
    /\ pl_trace' = Append(pl_trace, stage)
    /\ pl_locals' = locals
    /\ pl_stage' = next
    /\ UNCHANGED <<mgr_vars, rt_vars, pq_vars, ha_vars, ex_vars, pl_env, pl_details>>

\* A stage raises: the LLMAnalyzerError leaves analyze_database and
\* _execute_task, and wait_for hands it to _process_task.
StageRaises(stage, exc, details) ==
    /\ pl_trace' = Append(pl_trace, stage)
    /\ pl_stage' = "raised"
    /\ pl_details' = details
    /\ pending_exc' = [pending_exc EXCEPT ![1] = exc]
    /\ pc' = [pc EXCEPT ![1] = "raised"]
    /\ elapsed' = [elapsed EXCEPT ![1] = 1]
    /\ UNCHANGED <<cfg_vars, tasks, running_tasks, sem_value, error_stats, next_id,
                   sweep_due, age, reply, rt_vars, pq_vars, ha_vars, ex_vars, pl_env, pl_locals>>

\* analyze_database, lines 92-147: catalog name and statistics.
StageStatistics ==
    /\ pl_stage = "statistics"
    /\ LET statistics == CollectStatistics(request_data.ddl, pl_env.source)
       IN  StageDone("statistics",
                     [pl_locals EXCEPT !.catalog_name = PipelineCatalog(request_data),
                                       !.table_stats = statistics.table_stats,
                                       !.db_connector = <<statistics.db_connector>>],
                     "analysis")

\* analyze_database, line 154
StageAnalysis ==
    /\ pl_stage = "analysis"
    /\ StageDone("analysis",
                 [pl_locals EXCEPT !.tables_analysis =
                     _analyze_ddl_with_llm(request_data.ddl, pl_env.strategy,
                                           pl_locals.table_stats)],
                 "ddl")

\* Query optimization started right after the DDL generation, without the
\* migrations.
StageDdl_then_queries ==
    /\ pl_stage = "ddl"
    /\ StageDone("ddl",
                 [pl_locals EXCEPT !.new_ddl =
                     _generate_ddl_deterministic(pl_locals.tables_analysis,
                                                 pl_locals.catalog_name)],
                 "queries")

\* analyze_database, line 161
StageDdl ==
    /\ pl_stage = "ddl"
    /\ StageDone("ddl",
                 [pl_locals EXCEPT !.new_ddl =
                     _generate_ddl_deterministic(pl_locals.tables_analysis,
                                                 pl_locals.catalog_name)],
                 "migrations")

\* analyze_database, lines 168-182
StageMigrations ==
    /\ pl_stage = "migrations"
    /\ IF pl_env.migrations = <<>>
       THEN StageRaises("migrations", ProtocolExhaustedMsg,
                        << [function |-> "produce_migrations"] >>)
       ELSE StageDone("migrations",
                      [pl_locals EXCEPT !.migrations = pl_env.migrations[1]],
                      "queries")

\* _optimize_queries_parallel handing back the rewrites that succeeded when
\* others failed.
StageQueries_partial ==
    /\ pl_stage = "queries"
    /\ LET optimized ==
               _optimize_queries_parallel(request_data.queries, pl_locals.new_ddl,
                                          pl_locals.catalog_name, pl_env.finish)
           IsOk(q) == ~RewriteRaises(q)
           kept == _optimize_queries_parallel(
                       SelectSeq(request_data.queries, IsOk), pl_locals.new_ddl,
                       pl_locals.catalog_name, pl_env.finish)
       IN  IF pl_env.unexpected # <<>>
           THEN StageRaises("queries", UnexpectedMsg(pl_env.unexpected[1]), <<>>)
           ELSE StageDone("queries",
                          [pl_locals EXCEPT !.optimized_queries = kept.results],
                          "validation")

\* analyze_database, lines 189-193
StageQueries ==
    /\ pl_stage = "queries"
    /\ LET optimized ==
               _optimize_queries_parallel(request_data.queries, pl_locals.new_ddl,
                                          pl_locals.catalog_name, pl_env.finish)
       IN  IF pl_env.unexpected # <<>>
           THEN StageRaises("queries", UnexpectedMsg(pl_env.unexpected[1]), <<>>)
           ELSE IF optimized.raised
           THEN StageRaises("queries",
                            OptimizationFailedMsg(Len(optimized.errors),
                                                  Len(request_data.queries)),
                            << [optimization_errors |-> optimized.errors] >>)
           ELSE StageDone("queries",
                          [pl_locals EXCEPT !.optimized_queries = optimized.results],
                          "validation")

\* The result dict as analyze_database holds it in its local variables.
LocalResult ==
    ResultDict(pl_locals.new_ddl, pl_locals.migrations, pl_locals.optimized_queries)

\* analyze_database, lines 196-211
StageValidation ==
    /\ pl_stage = "validation"
    /\ IF ~_validate_full_paths(LocalResult)
       THEN StageRaises("validation", PathValidationMsg,
                        << [catalog_name |-> pl_locals.catalog_name] >>)
       ELSE StageDone("validation", pl_locals, "evaluation")

\* An evaluation that lets the exception of the evaluation request through.
StageEvaluation_raising ==
    /\ pl_stage = "evaluation"
    /\ IF pl_env.evaluation.kind = "raises"
       THEN StageRaises("evaluation", UnexpectedMsg({}), <<>>)
       ELSE StageDone("evaluation",
                      [pl_locals EXCEPT !.evaluation_score =
                          << _evaluate_result_internal(pl_env.evaluation) >>],
                      "build")

\* analyze_database, lines 218-232: evaluation, and the return of the result.
StageEvaluation ==
    /\ pl_stage = "evaluation"
    /\ StageDone("evaluation",
                 [pl_locals EXCEPT !.evaluation_score =
                     << _evaluate_result_internal(pl_env.evaluation) >>],
                 "build")

\* _execute_task, lines 249-260: the result is built from the analyzer's
\* output and attached, the task becomes DONE.
BuildResult ==
    /\ pl_stage = "build"
    /\ pc[1] = "processing"
    /\ LET llm_result == WithScore(LocalResult, pl_locals.evaluation_score[1])
       IN  tasks' = [tasks EXCEPT
                ![1].result = << _create_result_from_llm(llm_result, request_data,
                                                         pl_env.pydantic) >>,
                ![1].status = "DONE"]
    /\ pc' = [pc EXCEPT ![1] = "returned"]
    /\ pl_stage' = "done"
    /\ elapsed' = [elapsed EXCEPT ![1] = 1]
    /\ UNCHANGED <<cfg_vars, running_tasks, sem_value, error_stats, next_id,
                   pending_exc, sweep_due, age, reply, rt_vars, pq_vars, ha_vars, ex_vars, pl_env,
                   pl_trace, pl_locals, pl_details>>

NextPipeline ==
    \/ StageStatistics
    \/ StageAnalysis
    \/ StageDdl
    \/ StageMigrations
    \/ StageQueries
    \/ StageValidation
    \/ StageEvaluation
    \/ BuildResult
    \/ ExecuteSimple(1)
    \/ ProcessReturn(1)
    \/ ProcessException(1)
    \/ ProcessTimeout(1)

SpecPipeline == InitPipeline /\ [][NextPipeline]_vars

\* When analyze_database has ended, stage by stage, its outcome is the one
\* the single-step analyze_database gives for the same request and run.
PipelineAgrees ==
    LET out == analyze_database(request_data, pl_env)
    IN  /\ pl_stage = "raised" => out.raised /\ (pc[1] = "raised" => pending_exc[1] = out.exc)
        /\ pl_stage = "build" =>
              /\ ~out.raised
              /\ out.value = WithScore(LocalResult, pl_locals.evaluation_score[1])

(***************************************************************************)
(* LLMAnalyzer: the retry-with-repair protocol                             *)
(*                                                                         *)
(* A text is a sequence of blocks of BlockChars characters.  The blocks    *)
(* that matter to the extraction are named by their content:               *)
(*   "{" "}"   braces                                                      *)
(*   "fence"   a code fence                                                *)
(*   "x"       free text, not JSON                                         *)
(*   "m1" "m2" a member "migrations": [{"statement": "..."}]               *)
(*   "mbad"    a member "migrations": "not an array"                       *)
(*   "k"       another well-formed member                                  *)
(*   "deep"    a member nested deeper than the recursion limit of json     *)
(***************************************************************************)
BlockChars == 800
MaxAttempts == 3
TruncateLimit == 4000 \div BlockChars
SnippetLimit == 800 \div BlockChars

Members == {"m1", "m2", "mbad", "k"}

\* What the producer may answer to one request: <<>> for a request that
\* raised, <<content>> for a completion with that content.
Responses ==
    { <<>>,
      << <<>> >>,
      << <<"x">> >>,
      << <<"{", "x", "}">> >>,
      << <<"x", "x", "x", "x", "x", "x">> >>,
      << <<"{", "k", "}">> >>,
      << <<"{", "mbad", "}">> >>,
      << <<"{", "m1", "}">> >>,
      << <<"x", "{", "m2", "}">> >>,
      << <<"x", "{", "x", "}", "{", "m2", "}">> >>,
      << <<"fence", "{", "k", "m1", "}", "fence">> >>,
      << <<"{", "m1", "deep", "}">> >>,
      << <<"{", "x", "deep", "}">> >> }

\* json.loads accepts the text: one object whose members are well formed.
JsonLoads(text) ==
    /\ Len(text) >= 2
    /\ text[1] = "{"
    /\ text[Len(text)] = "}"
    /\ \A i \in 2..(Len(text) - 1) : text[i] \in Members

\* json.loads raises RecursionError on the text: the decoder reaches the
\* deep member before it meets anything malformed.
JsonLoadsOverflows(text) ==
    /\ Len(text) >= 2
    /\ text[1] = "{"
    /\ \E i \in 2..(Len(text) - 1) :
          /\ text[i] = "deep"
          /\ \A j \in 2..(i - 1) : text[j] \in Members

\* The object json.loads returns, as the set of its members.
ParsedObject(text) == {text[i] : i \in 2..(Len(text) - 1)}

RECURSIVE DropLeadingText(_)
DropLeadingText(text) ==
    IF text = <<>> \/ Head(text) = "{" THEN text ELSE DropLeadingText(Tail(text))

\* The scan of lines 1090-1106 from position i at brace depth depth: the
\* first span from the first brace to a brace closing depth 0 that json.loads
\* accepts.  Only JSONDecodeError is caught: a span json.loads gives up on
\* with RecursionError ends the scan with that exception, <<span, "raised">>.
RECURSIVE ScanBraces(_, _, _)
ScanBraces(cleaned, i, depth) ==
    IF i > Len(cleaned) THEN <<>>
    ELSE IF cleaned[i] = "{" THEN ScanBraces(cleaned, i + 1, depth + 1)
    ELSE IF cleaned[i] = "}"
         THEN IF depth - 1 = 0 /\ JsonLoads(SubSeq(cleaned, 1, i))
              THEN << SubSeq(cleaned, 1, i) >>
              ELSE IF depth - 1 = 0 /\ JsonLoadsOverflows(SubSeq(cleaned, 1, i))
              THEN << SubSeq(cleaned, 1, i), <<"raised">> >>
              ELSE ScanBraces(cleaned, i + 1, depth - 1)
    ELSE ScanBraces(cleaned, i + 1, depth)

\* LLMAnalyzer._extract_json_from_response: <<>> for None, <<json_str>> for a
\* returned string, <<span, <<"raised">> >> for an exception.
_extract_json_from_response(content) ==
    LET NotFence(b) == b # "fence"
        cleaned == DropLeadingText(SelectSeq(content, NotFence))
    IN  IF cleaned = <<>> THEN <<>> ELSE ScanBraces(cleaned, 1, 0)

\* LLMAnalyzer._validate_by_function for "produce_migrations"
_validate_by_function(data) == data \cap {"m1", "m2"} # {} /\ "mbad" \notin data

\* LLMAnalyzer._safe_truncate
_safe_truncate(text, limit) ==
    IF Len(text) <= limit THEN text ELSE SubSeq(text, 1, limit) \o <<"... [truncated]">>

Failure(raw, type) ==
    [ok |-> FALSE, obj |-> {}, raw |-> raw, errors |-> << [type |-> type] >>]

\* LLMAnalyzer._call_llm_function: (ok, obj, raw, errors) for the producer's
\* answer to the request.
_call_llm_function(response) ==
    IF response = <<>> THEN Failure(<<>>, "llm_request_error")
    ELSE IF response[1] = <<>> THEN Failure(<<>>, "empty_llm_response")
    ELSE LET json_content == _extract_json_from_response(response[1])
         IN  IF Len(json_content) = 2 THEN Failure(<<>>, "llm_request_error")
             ELSE IF json_content = <<>> THEN Failure(<<response[1]>>, "json_not_found")
             ELSE IF ~JsonLoads(json_content[1])
             THEN Failure(json_content, "json_decode_error")
             ELSE IF ~_validate_by_function(ParsedObject(json_content[1]))
             THEN Failure(json_content, "schema_validation")
             ELSE [ok |-> TRUE, obj |-> ParsedObject(json_content[1]),
                   raw |-> json_content, errors |-> <<>>]

\* LLMAnalyzer._build_repair_prompt: the reasons and the snippet it quotes.
_build_repair_prompt(errors, raw_output) ==
    [reasons |-> [i \in 1..Len(errors) |-> errors[i].type],
     snippet |-> SubSeq(raw_output, 1,
                        IF Len(raw_output) < SnippetLimit
                        THEN Len(raw_output) ELSE SnippetLimit)]

OrEmpty(raw) == IF raw = <<>> THEN <<>> ELSE raw[1]

\* The request without the repair instruction.
Messages_no_repair(repair_prompt) ==
    << [role |-> "system", content |-> <<"system_prompt">>],
       [role |-> "user", content |-> <<"user_input">>] >>

\* _call_llm_function, lines 1016-1021: the messages of the request.
Messages(repair_prompt) ==
    << [role |-> "system", content |-> <<"system_prompt">>],
       [role |-> "user", content |-> <<"user_input">>] >>
    \o (IF repair_prompt # <<>>
        THEN << [role |-> "system", content |-> repair_prompt] >>
        ELSE <<>>)

InitRetry ==
    /\ max_workers = 1
    /\ max_queue_size = 0
    /\ task_timeout_minutes = MaxTimeoutMinutes
    /\ use_llm = TRUE
    /\ tasks = <<>>
    /\ running_tasks = 0
    /\ sem_value = max_workers
    /\ error_stats = [timeout_errors |-> 0, llm_errors |-> 0, validation_errors |-> 0,
                      database_errors |-> 0, total_errors |-> 0, queue_full_errors |-> 0]
    /\ next_id = 0
    /\ pc = [t \in TaskIds |-> "none"]
    /\ pending_exc = [t \in TaskIds |-> NoExc]
    /\ elapsed = [t \in TaskIds |-> 0]
    /\ sweep_due = FALSE
    /\ age = [t \in TaskIds |-> 0]
    /\ reply = NoReply
    /\ InitPipelineIdle
    /\ InitPathsIdle
    /\ rt_max_attempts \in 0..MaxAttempts
    /\ rt_pc = "loop"
    /\ rt_attempt = 0
    /\ rt_all_errors = <<>>
    /\ rt_calls = <<>>
    /\ rt_return = <<>>
    /\ rt_raised = <<>>

\* One iteration of the for loop that returns as soon as the budget allows
\* no further attempt, instead of on the first success.
RetryAttempt_no_early_return(response) ==
    /\ rt_pc = "loop"
    /\ rt_attempt < rt_max_attempts
    /\ LET attempt == rt_attempt + 1
           repair_prompt ==
               IF attempt > 1
               THEN << _build_repair_prompt(rt_all_errors[Len(rt_all_errors)].errors,
                                            rt_all_errors[Len(rt_all_errors)].raw_output) >>
               ELSE <<>>
           out == _call_llm_function(response)
       IN  /\ rt_attempt' = attempt
           /\ rt_calls' = Append(rt_calls, [repair_prompt |-> repair_prompt,
                                            messages |-> Messages(repair_prompt),
                                            response |-> response])
           /\ rt_all_errors' = Append(rt_all_errors,
                  [attempt |-> attempt, errors |-> out.errors,
                   raw_output |-> _safe_truncate(OrEmpty(out.raw), TruncateLimit)])
           /\ IF out.ok /\ attempt = rt_max_attempts
              THEN rt_pc' = "returned" /\ rt_return' = <<out.obj>>
              ELSE UNCHANGED <<rt_pc, rt_return>>
    /\ UNCHANGED <<mgr_vars, pl_vars, pq_vars, ha_vars, ex_vars, rt_max_attempts, rt_raised>>

\* _call_with_retries: one iteration of the for loop (lines 965-993).
RetryAttempt(response) ==
    /\ rt_pc = "loop"
    /\ rt_attempt < rt_max_attempts
    /\ LET attempt == rt_attempt + 1
           repair_prompt ==
               IF attempt > 1
               THEN << _build_repair_prompt(rt_all_errors[Len(rt_all_errors)].errors,
                                            rt_all_errors[Len(rt_all_errors)].raw_output) >>
               ELSE <<>>
           out == _call_llm_function(response)
       IN  /\ rt_attempt' = attempt
           /\ rt_calls' = Append(rt_calls, [repair_prompt |-> repair_prompt,
                                            messages |-> Messages(repair_prompt),
                                            response |-> response])
           /\ rt_all_errors' = Append(rt_all_errors,
                  [attempt |-> attempt, errors |-> out.errors,
                   raw_output |-> _safe_truncate(OrEmpty(out.raw), TruncateLimit)])
           /\ IF out.ok
              THEN rt_pc' = "returned" /\ rt_return' = <<out.obj>>
              ELSE UNCHANGED <<rt_pc, rt_return>>
    /\ UNCHANGED <<mgr_vars, pl_vars, pq_vars, ha_vars, ex_vars, rt_max_attempts, rt_raised>>

\* The loop giving up one attempt early.
RetryExhausted_one_short ==
    /\ rt_pc = "loop"
    /\ rt_attempt >= rt_max_attempts - 1
    /\ rt_pc' = "raised"
    /\ rt_raised' = << [message |-> ProtocolExhaustedMsg,
                        details |-> [function |-> "produce_migrations",
                                     attempts |-> rt_all_errors]] >>
    /\ UNCHANGED <<mgr_vars, pl_vars, pq_vars, ha_vars, ex_vars, rt_max_attempts, rt_attempt, rt_all_errors, rt_calls,
                   rt_return>>

\* _call_with_retries: the loop ended without a return (lines 995-1005).
RetryExhausted ==
    /\ rt_pc = "loop"
    /\ rt_attempt >= rt_max_attempts
    /\ rt_pc' = "raised"
    /\ rt_raised' = << [message |-> ProtocolExhaustedMsg,
                        details |-> [function |-> "produce_migrations",
                                     attempts |-> rt_all_errors]] >>
    /\ UNCHANGED <<mgr_vars, pl_vars, pq_vars, ha_vars, ex_vars, rt_max_attempts, rt_attempt, rt_all_errors, rt_calls,
                   rt_return>>

NextRetry ==
    \/ \E response \in Responses : RetryAttempt(response)
    \/ RetryExhausted

SpecRetry == InitRetry /\ [][NextRetry]_vars

(***************************************************************************)
(* LLMAnalyzer: path qualification on the text of a query                  *)
(*                                                                         *)
(* When sqlglot raises on the text (or SQL parsing is disabled),            *)
(* _replace_table_paths_robust is the substitution of lines 938-947.  A    *)
(* text is the sequence of its maximal runs of word characters (\w+) and   *)
(* of the characters between them, one token each.                         *)
(***************************************************************************)
Separators == {".", " ", "-", "(", ")", "="}

IsWord(token) == token \notin Separators

\* str.lower() on the words of the model
Lower(word) == IF word \in {"OPTIMIZED", "Optimized"} THEN "optimized" ELSE word

\* A match of (\w+)\.(\w+)\.(\w+) starts at position i
MatchesAt(text, i) ==
    /\ i + 4 <= Len(text)
    /\ IsWord(text[i]) /\ text[i + 1] = "." /\ IsWord(text[i + 2])
    /\ text[i + 3] = "." /\ IsWord(text[i + 4])

\* replace_path (lines 940-945) for the match that starts at position i
replace_path(text, i, catalog_name) ==
    IF Lower(text[i + 2]) # "optimized"
    THEN catalog_name \o <<".", "optimized", ".", text[i + 4]>>
    ELSE SubSeq(text, i, i + 4)

\* re.sub(pattern, replace_path, query): leftmost matches, not overlapping
RECURSIVE ReSub(_, _, _)
ReSub(text, i, catalog_name) ==
    IF i > Len(text) THEN <<>>
    ELSE IF MatchesAt(text, i)
         THEN replace_path(text, i, catalog_name) \o ReSub(text, i + 5, catalog_name)
         ELSE <<text[i]>> \o ReSub(text, i + 1, catalog_name)

\* LLMAnalyzer._replace_table_paths_robust on a text that sqlglot does not
\* parse (the last of QueryTexts lacks a closing parenthesis)
replace_table_paths_regex(query, catalog_name) == ReSub(query, 1, catalog_name)

Path3(a, b, c) == <<a, ".", b, ".", c>>

QueryTexts ==
    { <<"FROM", " ">> \o Path3("test", "public", "users"),
      <<"FROM", " ">> \o Path3("test", "optimized", "users"),
      <<"FROM", " ">> \o Path3("other", "OPTIMIZED", "users"),
      <<"FROM", " ", "users">>,
      <<"FROM", " ", "public", ".", "users">>,
      <<"FROM", " ">> \o Path3("test", "public", "users") \o <<" ", "JOIN", " ">>
          \o Path3("test", "public", "orders"),
      <<"FROM", " ">> \o Path3("test", "public", "users") \o <<" ", "WHERE", " ">>
          \o Path3("test", "public", "users") \o <<".", "id", "=", "1">>,
      <<"FROM", " ">> \o Path3("a", "b", "c") \o <<".", "d">>,
      <<"FROM", " ">> \o Path3("other", "optimized", "t") \o <<" ", "JOIN", " ">>
          \o Path3("x", "y", "z"),
      <<"FROM", " ">> \o Path3("test", "public", "users")
          \o <<" ", "WHERE", " ", "id", " ", "IN", " ", "(", "1">> }

\* Catalog names as _extract_catalog_from_url gives them: the text after
\* "catalog=" up to the next "&", or the last path segment of the url.
CatalogNames ==
    { <<"test">>, <<"default_catalog">>, <<"my", "-", "cat">>, <<"a", ".", "b">>,
      <<"prod", ".", "eu", ".", "dwh">> }

MaxApplications == 2

InitPaths ==
    /\ max_workers = 1
    /\ max_queue_size = 0
    /\ task_timeout_minutes = MaxTimeoutMinutes
    /\ use_llm = TRUE
    /\ tasks = <<>>
    /\ running_tasks = 0
    /\ sem_value = max_workers
    /\ error_stats = [timeout_errors |-> 0, llm_errors |-> 0, validation_errors |-> 0,
                      database_errors |-> 0, total_errors |-> 0, queue_full_errors |-> 0]
    /\ next_id = 0
    /\ pc = [t \in TaskIds |-> "none"]
    /\ pending_exc = [t \in TaskIds |-> NoExc]
    /\ elapsed = [t \in TaskIds |-> 0]
    /\ sweep_due = FALSE
    /\ age = [t \in TaskIds |-> 0]
    /\ reply = NoReply
    /\ InitRetryIdle
    /\ InitPipelineIdle
    /\ pq_query \in QueryTexts
    /\ pq_catalog_name \in CatalogNames
    /\ pq_outputs = <<>>
    /\ pq_new_ddl = <<>>
    /\ pq_enable_sql_parsing = FALSE
    /\ InitHeuristicIdle

\* _replace_table_paths_robust is applied to the query, then to its own output.
QualifyPaths ==
    /\ Len(pq_outputs) < MaxApplications
    /\ pq_outputs' = Append(pq_outputs,
          replace_table_paths_regex(
              IF pq_outputs = <<>> THEN pq_query ELSE pq_outputs[Len(pq_outputs)],
              pq_catalog_name))
    /\ UNCHANGED <<mgr_vars, rt_vars, pl_vars, ha_vars, ex_vars, pq_query, pq_catalog_name, pq_new_ddl,
                   pq_enable_sql_parsing>>

NextPaths == QualifyPaths

SpecPaths == InitPaths /\ [][NextPaths]_vars

(***************************************************************************)
(* The rewriting of one query by _optimize_one_query, on parsed queries    *)
(***************************************************************************)
ColsOrders3 == << <<"id", "INTEGER">>, <<"amount", "DOUBLE">>, <<"created_at", "TIMESTAMP">> >>

\* The queries given to _optimize_one_query.
RewriteQueries ==
    { SqlOf(proj, path[1], path[2], tbl, group, lim, parses) :
        proj \in { <<"*">>, <<"id", "amount">>, <<"COUNT(*)">>, <<"STDDEV(amount)">>,
                   <<"status", "SUM(amount)">>, <<"status">>, <<"rate_limit">> },
        path \in { << <<"catalog">>, <<"public">> >>, << <<"catalog">>, <<"optimized">> >>,
                   << <<>>, <<"public">> >> },
        tbl \in {"orders", "events"},
        group \in { <<>>, <<"status">> },
        lim \in { <<>>, <<5>> },
        parses \in BOOLEAN }

\* The generated DDL: the table orders with three columns, or no table.
RewriteDdl(catalog_name) ==
    { << Statement("CREATE SCHEMA IF NOT EXISTS", catalog_name, "optimized", "",
                   <<>>, <<>>, <<>>),
         CreateTable(catalog_name, "optimized", "orders", ColsOrders3) >>,
      << Statement("CREATE SCHEMA IF NOT EXISTS", catalog_name, "optimized", "",
                   <<>>, <<>>, <<>>) >> }

InitRewrite ==
    /\ InitManager
    /\ max_workers = 1
    /\ max_queue_size = 0
    /\ task_timeout_minutes = MaxTimeoutMinutes
    /\ use_llm
    /\ InitRetryIdle
    /\ InitPipelineIdle
    /\ pq_query \in RewriteQueries
    /\ pq_catalog_name \in {"catalog", "lake"}
    /\ pq_new_ddl \in RewriteDdl(pq_catalog_name)
    /\ pq_enable_sql_parsing \in BOOLEAN
    /\ pq_outputs = <<>>
    /\ InitHeuristicIdle

\* query_with_new_paths = self._replace_table_paths_robust(original_query, catalog_name)
ReplacePaths ==
    /\ pq_outputs = <<>>
    /\ pq_outputs' = << _replace_table_paths_robust(pq_query, pq_catalog_name) >>
    /\ UNCHANGED <<mgr_vars, rt_vars, pl_vars, ha_vars, ex_vars, pq_query, pq_catalog_name, pq_new_ddl,
                   pq_enable_sql_parsing>>

\* optimized_query = self._apply_real_optimizations(query_with_new_paths, table_metadata, ...)
ApplyOptimizations ==
    /\ Len(pq_outputs) = 1
    /\ pq_outputs' = Append(pq_outputs,
          _apply_real_optimizations(pq_outputs[1], _extract_table_metadata(pq_new_ddl),
                                    pq_enable_sql_parsing))
    /\ UNCHANGED <<mgr_vars, rt_vars, pl_vars, ha_vars, ex_vars, pq_query, pq_catalog_name, pq_new_ddl,
                   pq_enable_sql_parsing>>

\* _optimize_one_query (lines 657-677) called with the text it returned.
RewriteAgain ==
    /\ Len(pq_outputs) = 2
    /\ pq_outputs' = Append(pq_outputs,
          _apply_real_optimizations(
              _replace_table_paths_robust(pq_outputs[2], pq_catalog_name),
              _extract_table_metadata(pq_new_ddl), pq_enable_sql_parsing))
    /\ UNCHANGED <<mgr_vars, rt_vars, pl_vars, ha_vars, ex_vars, pq_query, pq_catalog_name, pq_new_ddl,
                   pq_enable_sql_parsing>>

NextRewrite == ReplacePaths \/ ApplyOptimizations \/ RewriteAgain

SpecRewrite == InitRewrite /\ [][NextRewrite]_vars

(***************************************************************************)
(* One call of _heuristic_analysis                                         *)
(***************************************************************************)
\* The columns a table is made of, in the order of its DDL.
ColumnUniverse ==
    << <<"order_id", "VARCHAR">>, <<"created_at", "TIMESTAMP">>, <<"customer_id", "INTEGER">>,
       <<"updated_at", "TIMESTAMP">>, <<"status", "VARCHAR">>, <<"order_date", "DATE">>,
       <<"event_time", "VARCHAR">>, <<"user_key", "VARCHAR">>, <<"type_code", "VARCHAR">>,
       <<"amount", "DOUBLE">> >>

\* The tables: the non-empty selections of columns, in the order above.
HeuristicTables ==
    { LET In(c) == c \in S IN SelectSeq(ColumnUniverse, In) :
        S \in SUBSET {ColumnUniverse[i] : i \in 1..Len(ColumnUniverse)} } \ {<<>>}

\* The statistics: none, or the cardinality of two columns.
HeuristicStats ==
    { <<>>,
      [n \in {"created_at", "order_id"} |-> 5],
      [n \in {"created_at", "order_id"} |-> 30] }

InitHeuristic ==
    /\ InitManager
    /\ max_workers = 1
    /\ max_queue_size = 0
    /\ task_timeout_minutes = MaxTimeoutMinutes
    /\ use_llm
    /\ InitRetryIdle
    /\ InitPipelineIdle
    /\ pq_query = <<>>
    /\ pq_catalog_name = <<>>
    /\ pq_outputs = <<>>
    /\ pq_new_ddl = <<>>
    /\ pq_enable_sql_parsing = FALSE
    /\ InitExIdle
    /\ ha_columns \in HeuristicTables
    /\ ha_column_stats \in HeuristicStats
    /\ ha_row_count \in IF ha_column_stats = <<>> THEN {0} ELSE {0, 100}
    /\ ha_analysis = <<>>

\* tables_analysis.append(self._heuristic_analysis(table_name, columns, ...))
HeuristicAnalysis ==
    /\ ha_analysis = <<>>
    /\ ha_analysis' = << _heuristic_analysis("orders", ha_columns, ha_row_count,
                                              ha_column_stats) >>
    /\ UNCHANGED <<mgr_vars, rt_vars, pl_vars, pq_vars, ex_vars, ha_columns, ha_row_count,
                   ha_column_stats>>

NextHeuristic == HeuristicAnalysis

SpecHeuristic == InitHeuristic /\ [][NextHeuristic]_vars

(***************************************************************************)
(* POST /new: validation of the request body and submission                *)
(*                                                                         *)
(* A body is the JSON object sent by the client.  A field that may be      *)
(* missing is <<>> or <<value>>; a text is the string itself.              *)
(***************************************************************************)
Body(url, ddl, queries) == [url |-> url, ddl |-> ddl, queries |-> queries]

DdlEntry(statement) == [statement |-> statement]

QueryEntry(queryid, query, runquantity) ==
    [queryid |-> queryid, query |-> query, runquantity |-> runquantity]

GoodUrl == <<"jdbc:trino://localhost:8080?catalog=test">>
GoodDdl == << << DdlEntry(<<"CREATE TABLE test.public.users (id INTEGER)">>) >> >>
GoodQuery == QueryEntry(<<"q1">>, <<"SELECT * FROM test.public.users">>, <<10>>)

Bodies ==
    { Body(GoodUrl, GoodDdl, << <<GoodQuery>> >>),
      Body(GoodUrl, GoodDdl, << <<GoodQuery, QueryEntry(<<"q2">>, <<"SELECT 1">>, <<1>>)>> >>),
      Body(GoodUrl, GoodDdl, << <<QueryEntry(<<"">>, <<"SELECT 1">>, <<1>>)>> >>),
      Body(GoodUrl, GoodDdl, << <<QueryEntry(<<"q1">>, <<"">>, <<1>>)>> >>),
      Body(GoodUrl, << <<DdlEntry(<<"">>)>> >>, << <<GoodQuery>> >>),
      Body(<<"jdbc:">>, GoodDdl, << <<GoodQuery>> >>),
      Body(<<>>, GoodDdl, << <<GoodQuery>> >>),
      Body(<<"trino://localhost:8080">>, GoodDdl, << <<GoodQuery>> >>),
      Body(GoodUrl, <<>>, << <<GoodQuery>> >>),
      Body(GoodUrl, << <<>> >>, << <<GoodQuery>> >>),
      Body(GoodUrl, << <<DdlEntry(<<>>)>> >>, << <<GoodQuery>> >>),
      Body(GoodUrl, GoodDdl, <<>>),
      Body(GoodUrl, GoodDdl, << <<>> >>),
      Body(GoodUrl, GoodDdl, << <<QueryEntry(<<>>, <<"SELECT 1">>, <<1>>)>> >>),
      Body(GoodUrl, GoodDdl, << <<QueryEntry(<<"q1">>, <<>>, <<1>>)>> >>),
      Body(GoodUrl, GoodDdl, << <<GoodQuery, QueryEntry(<<"q2">>, <<"SELECT 1">>, <<>>)>> >>) }

\* v.startswith('jdbc:') for the urls of Bodies
StartsWithJdbc(url) == url \in {"jdbc:", GoodUrl[1]}

\* OptimizationRequest.validate_url
validate_url(body) == body.url # <<>> /\ StartsWithJdbc(body.url[1])

\* OptimizationRequest.validate_ddl
validate_ddl(body) ==
    /\ body.ddl # <<>>
    /\ body.ddl[1] # <<>>
    /\ \A i \in 1..Len(body.ddl[1]) : body.ddl[1][i].statement # <<>>

\* OptimizationRequest.validate_queries: the three fields are present
validate_queries(body) ==
    /\ body.queries # <<>>
    /\ body.queries[1] # <<>>
    /\ \A i \in 1..Len(body.queries[1]) :
          /\ body.queries[1][i].queryid # <<>>
          /\ body.queries[1][i].query # <<>>
          /\ body.queries[1][i].runquantity # <<>>

\* The body becomes an OptimizationRequest
OptimizationRequest(body) == validate_url(body) /\ validate_ddl(body) /\ validate_queries(body)

\* validation_exception_handler: the response to a body that is not an
\* OptimizationRequest
BadRequest == [raised |-> TRUE, task_id |-> 0, status_code |-> 400]

InitApi ==
    /\ Init
    /\ max_workers = 1
    /\ task_timeout_minutes = MaxTimeoutMinutes
    /\ ~use_llm

\* POST /new with a body: FastAPI validates it, and create_optimization_task
\* submits the request.
PostNew(body) ==
    IF OptimizationRequest(body)
    THEN CreateTask(body)
    ELSE /\ reply' = BadRequest
         /\ UNCHANGED <<cfg_vars, tasks, running_tasks, sem_value, error_stats, next_id,
                        pc, pending_exc, elapsed, sweep_due, age, aux_vars>>

NextApi == \E body \in Bodies : PostNew(body)

SpecApi == InitApi /\ [][NextApi]_vars

(***************************************************************************)
(* _analyze_ddl_with_llm statement by statement, then                      *)
(* _generate_ddl_deterministic                                             *)
(*                                                                         *)
(* The strategy request of one table ends in one of                        *)
(*   "raises"        chat.completions.create raised                        *)
(*   "empty"         the answer has no content                             *)
(*   "no_json"       the content has no opening brace                      *)
(*   "invalid_json"  no balanced brace span of the content parses          *)
(*   "object"        a span parses; its fields are JSON values             *)
(* A JSON value is [type, items]: type "absent" for a missing key, "null", *)
(* "number", "array" of names, or "string" with its characters as items.   *)
(***************************************************************************)
Absent == [type |-> "absent", items |-> <<>>]
Null == [type |-> "null", items |-> <<>>]
Number == [type |-> "number", items |-> <<>>]
Array(items) == [type |-> "array", items |-> items]
Text(chars) == [type |-> "string", items |-> chars]

FailedRequest(kind) ==
    [kind |-> kind, partition_columns |-> Absent, cluster_columns |-> Absent,
     compression |-> ""]

Object(partition_columns, cluster_columns, compression) ==
    [kind |-> "object", partition_columns |-> partition_columns,
     cluster_columns |-> cluster_columns, compression |-> compression]

\* No request is made for a statement the loop skips.
NoRequest == FailedRequest("none")

StrategyOutcomes ==
    { FailedRequest("raises"), FailedRequest("empty"), FailedRequest("no_json"), FailedRequest("invalid_json"),
      Object(Array(<<"created_at", "ghost">>), Array(<<"id">>), "ZSTD"),
      Object(Array(<<"created_at", "amount", "id">>),
             Array(<<"id", "order_id", "name", "created_at", "amount">>), "SNAPPY"),
      Object(Array(<<"ghost">>), Array(<<"ghost", "phantom">>), ""),
      Object(Absent, Absent, ""),
      Object(Null, Array(<<"id">>), "ZSTD"),
      Object(Array(<<"created_at">>), Number, "ZSTD"),
      Object(Text(<<"c", "r", "e">>), Array(<<"id">>), "ZSTD") }

\* Lines 425-451: the strategy the loop body works with.  json_content is
\* None without a parsing span; analysis.get(key, [])[:n] raises TypeError
\* on null or a number, which the except branch catches like a failed request.
StrategyOf(outcome) ==
    LET Sliceable(v) == v.type \in {"absent", "array", "string"}
    IN  IF outcome.kind # "object" THEN <<>>
        ELSE IF ~Sliceable(outcome.partition_columns)
                \/ ~Sliceable(outcome.cluster_columns)
        THEN <<>>
        ELSE << [partition_columns |-> outcome.partition_columns.items,
                 cluster_columns |-> outcome.cluster_columns.items,
                 compression |-> IF outcome.compression = "" THEN "ZSTD"
                                 ELSE outcome.compression] >>

\* The three tests that skip a statement (lines 375-385).
Analyzable(ddl_item) ==
    ddl_item.kind = "CREATE TABLE" /\ ddl_item.table # "" /\ ddl_item.columns # <<>>

AnalysisDdls ==
    { << CreateTable("test", "public", "users", ColsUsers) >>,
      << CreateTable("test", "public", "orders", ColsOrders3),
         CreateTable("test", "public", "users", ColsUsers) >>,
      << Statement("CREATE SCHEMA IF NOT EXISTS", "test", "public", "", <<>>, <<>>, <<>>),
         CreateTable("test", "public", "", ColsUsers),
         CreateTable("test", "public", "empty", <<>>),
         CreateTable("test", "public", "orders", ColsOrders3) >> }

AnalysisStats ==
    { <<>>,
      [t \in {"orders"} |->
          [row_count |-> 100, column_stats |-> [n \in {"created_at", "id"} |-> 30]]] }

InitAnalysis ==
    /\ InitManager
    /\ max_workers = 1
    /\ max_queue_size = 0
    /\ task_timeout_minutes = MaxTimeoutMinutes
    /\ use_llm
    /\ InitRetryIdle
    /\ InitPipelineIdle
    /\ pq_query = <<>>
    /\ pq_catalog_name = <<>>
    /\ pq_outputs = <<>>
    /\ pq_new_ddl = <<>>
    /\ pq_enable_sql_parsing = FALSE
    /\ ha_columns = <<>>
    /\ ha_row_count = 0
    /\ ha_column_stats = <<>>
    /\ ha_analysis = <<>>
    /\ InitLoopIdle
    /\ InitThreadsIdle
    /\ InitHealthIdle
    /\ an_ddl \in AnalysisDdls
    /\ an_table_stats \in AnalysisStats
    /\ an_i = 1
    /\ an_outcomes = <<>>
    /\ an_analysis = <<>>
    /\ an_new_ddl = <<>>

\* The iteration that goes on to the next statement when the request failed.
AnalyzeTable_drop ==
    /\ an_i \in 1..Len(an_ddl)
    /\ \E outcome \in IF Analyzable(an_ddl[an_i]) THEN StrategyOutcomes ELSE {NoRequest} :
          /\ an_outcomes' = Append(an_outcomes, outcome)
          /\ an_analysis' =
                IF StrategyOf(outcome) = <<>> THEN an_analysis
                ELSE an_analysis
                     \o AnalyzeOne(an_ddl[an_i], StrategyOf(outcome), an_table_stats)
    /\ an_i' = an_i + 1
    /\ UNCHANGED <<mgr_vars, rt_vars, pl_vars, pq_vars, ha_vars, lp_vars, th_vars, hc_vars, an_ddl,
                   an_table_stats, an_new_ddl>>

\* One iteration of the loop of _analyze_ddl_with_llm (lines 374-459).
AnalyzeTable ==
    /\ an_i \in 1..Len(an_ddl)
    /\ \E outcome \in IF Analyzable(an_ddl[an_i]) THEN StrategyOutcomes ELSE {NoRequest} :
          /\ an_outcomes' = Append(an_outcomes, outcome)
          /\ an_analysis' = an_analysis
                \o AnalyzeOne(an_ddl[an_i], StrategyOf(outcome), an_table_stats)
    /\ an_i' = an_i + 1
    /\ UNCHANGED <<mgr_vars, rt_vars, pl_vars, pq_vars, ha_vars, lp_vars, th_vars, hc_vars, an_ddl,
                   an_table_stats, an_new_ddl>>

\* new_ddl = self._generate_ddl_deterministic(tables_analysis, catalog_name)
GenerateDdl ==
    /\ an_i = Len(an_ddl) + 1
    /\ an_new_ddl = <<>>
    /\ an_new_ddl' = << _generate_ddl_deterministic(an_analysis, "test") >>
    /\ UNCHANGED <<mgr_vars, rt_vars, pl_vars, pq_vars, ha_vars, lp_vars, th_vars, hc_vars, an_ddl,
                   an_table_stats, an_i, an_outcomes, an_analysis>>

NextAnalysis == AnalyzeTable \/ GenerateDdl

SpecAnalysis == InitAnalysis /\ [][NextAnalysis]_vars

(***************************************************************************)
(* The event loop and the coroutines of two tasks, with the LLM analyzer   *)
(*                                                                         *)
(* The loop runs one callback at a time; a coroutine gives the thread back *)
(* only at an await that suspends.  The coroutine of a task is at          *)
(*   "none"       not submitted                                            *)
(*   "queued"     created by create_task, before or at the semaphore       *)
(*   "scheduled"  suspended in wait_for, _execute_task not yet started     *)
(*   "analyzing"  inside analyze_database                                  *)
(*   "returned"   status DONE set, _process_task not yet resumed           *)
(*   "raised"     analyze_database raised, _process_task not yet resumed   *)
(*   "cancelled"  the timeout cancelled the pipeline before it started     *)
(*   "done" "failed"  _process_task ended and the slot is released         *)
(* The timeout handle is "unset", "armed", or "due" once its time passed.  *)
(***************************************************************************)
LoopTasks == 1..2
PipelineStages == 2
MaxServed == 3

\* The manager, the retry loop, the pipeline, the rewriting and the heuristic
\* play no part in the runs below.
InitBaseIdle ==
    /\ InitManager
    /\ max_workers = 1
    /\ max_queue_size = 0
    /\ task_timeout_minutes = MaxTimeoutMinutes
    /\ use_llm
    /\ InitRetryIdle
    /\ InitPipelineIdle
    /\ pq_query = <<>>
    /\ pq_catalog_name = <<>>
    /\ pq_outputs = <<>>
    /\ pq_new_ddl = <<>>
    /\ pq_enable_sql_parsing = FALSE
    /\ ha_columns = <<>>
    /\ ha_row_count = 0
    /\ ha_column_stats = <<>>
    /\ ha_analysis = <<>>

InitLoop ==
    /\ InitBaseIdle
    /\ InitAnalysisIdle
    /\ InitThreadsIdle
    /\ InitHealthIdle
    /\ lp_eager \in BOOLEAN
    /\ lp_max_workers \in 1..MaxWorkers
    /\ lp_sem = lp_max_workers
    /\ lp_running = 0
    /\ lp_pc = [t \in LoopTasks |-> "none"]
    /\ lp_stage = [t \in LoopTasks |-> 0]
    /\ lp_timer = [t \in LoopTasks |-> "unset"]
    /\ lp_served = 0

\* POST /new served: create_task registers the task and schedules its
\* coroutine (task_manager lines 73-124).
LoopSubmit(t) ==
    /\ lp_running = 0
    /\ lp_pc[t] = "none"
    /\ lp_served < MaxServed
    /\ lp_pc' = [lp_pc EXCEPT ![t] = "queued"]
    /\ lp_served' = lp_served + 1
    /\ UNCHANGED <<mgr_vars, rt_vars, pl_vars, pq_vars, ha_vars, an_vars, th_vars, hc_vars, lp_eager,
                   lp_max_workers, lp_sem, lp_running, lp_stage, lp_timer>>

\* GET /status or GET /stats served.
LoopServe ==
    /\ lp_running = 0
    /\ lp_served < MaxServed
    /\ lp_served' = lp_served + 1
    /\ UNCHANGED <<mgr_vars, rt_vars, pl_vars, pq_vars, ha_vars, an_vars, th_vars, hc_vars, lp_eager,
                   lp_max_workers, lp_sem, lp_running, lp_pc, lp_stage, lp_timer>>

\* _process_task_with_semaphore and _process_task up to wait_for (lines
\* 148-193): the slot is taken and the timeout armed; the pipeline starts at
\* once when wait_for awaits it inline, and is scheduled otherwise.
LoopStart(t) ==
    /\ lp_running = 0
    /\ lp_pc[t] = "queued"
    /\ lp_sem > 0
    /\ lp_sem' = lp_sem - 1
    /\ lp_timer' = [lp_timer EXCEPT ![t] = "armed"]
    /\ IF lp_eager
       THEN lp_pc' = [lp_pc EXCEPT ![t] = "analyzing"] /\ lp_running' = t
       ELSE lp_pc' = [lp_pc EXCEPT ![t] = "scheduled"] /\ UNCHANGED lp_running
    /\ UNCHANGED <<mgr_vars, rt_vars, pl_vars, pq_vars, ha_vars, an_vars, th_vars, hc_vars, lp_eager,
                   lp_max_workers, lp_stage, lp_served>>

\* The loop starts the task wait_for made of _execute_task (lines 227-245).
LoopBegin(t) ==
    /\ lp_running = 0
    /\ lp_pc[t] = "scheduled"
    /\ lp_pc' = [lp_pc EXCEPT ![t] = "analyzing"]
    /\ lp_running' = t
    /\ UNCHANGED <<mgr_vars, rt_vars, pl_vars, pq_vars, ha_vars, an_vars, th_vars, hc_vars, lp_eager,
                   lp_max_workers, lp_sem, lp_stage, lp_timer, lp_served>>

\* A stage of analyze_database that awaits its external call.
LoopStage_awaiting(t) ==
    /\ lp_running \in {0, t}
    /\ lp_pc[t] = "analyzing"
    /\ lp_stage[t] < PipelineStages
    /\ lp_stage' = [lp_stage EXCEPT ![t] = @ + 1]
    /\ lp_running' = 0
    /\ UNCHANGED <<mgr_vars, rt_vars, pl_vars, pq_vars, ha_vars, an_vars, th_vars, hc_vars, lp_eager,
                   lp_max_workers, lp_sem, lp_pc, lp_timer, lp_served>>

\* A stage of analyze_database (lines 89-230 of llm_analyzer.py): a
\* synchronous call, the coroutine keeps the thread.
LoopStage(t) ==
    /\ lp_running = t
    /\ lp_pc[t] = "analyzing"
    /\ lp_stage[t] < PipelineStages
    /\ lp_stage' = [lp_stage EXCEPT ![t] = @ + 1]
    /\ UNCHANGED <<mgr_vars, rt_vars, pl_vars, pq_vars, ha_vars, an_vars, th_vars, hc_vars, lp_eager,
                   lp_max_workers, lp_sem, lp_running, lp_pc, lp_timer, lp_served>>

\* The rest of _process_task (lines 195-225) and the release of the slot.
LoopResumed(t, how) ==
    /\ lp_pc' = [lp_pc EXCEPT ![t] = IF how = "returned" THEN "done" ELSE "failed"]
    /\ lp_sem' = lp_sem + 1
    /\ lp_timer' = [lp_timer EXCEPT ![t] = "unset"]

\* analyze_database returns or raises (lines 246-260): the status is DONE or
\* the exception leaves _execute_task.  Awaited inline, _process_task goes
\* on without a suspension.
LoopEnd(t) ==
    /\ lp_running = t
    /\ lp_pc[t] = "analyzing"
    /\ lp_stage[t] = PipelineStages
    /\ \E how \in {"returned", "raised"} :
          IF lp_eager
          THEN LoopResumed(t, how)
          ELSE /\ lp_pc' = [lp_pc EXCEPT ![t] = how]
               /\ UNCHANGED <<lp_sem, lp_timer>>
    /\ lp_running' = 0
    /\ UNCHANGED <<mgr_vars, rt_vars, pl_vars, pq_vars, ha_vars, an_vars, th_vars, hc_vars, lp_eager,
                   lp_max_workers, lp_stage, lp_served>>

\* The time of the timeout passes, whatever the thread is doing.
LoopElapse(t) ==
    /\ lp_timer[t] = "armed"
    /\ lp_timer' = [lp_timer EXCEPT ![t] = "due"]
    /\ UNCHANGED <<mgr_vars, rt_vars, pl_vars, pq_vars, ha_vars, an_vars, th_vars, hc_vars, lp_eager,
                   lp_max_workers, lp_sem, lp_running, lp_pc, lp_stage, lp_served>>

\* The loop runs the callback of a due timeout: a pipeline that is suspended
\* or not yet started is cancelled.
LoopTimeout(t) ==
    /\ lp_running = 0
    /\ lp_timer[t] = "due"
    /\ lp_pc[t] \in {"scheduled", "analyzing"}
    /\ lp_pc' = [lp_pc EXCEPT ![t] = "cancelled"]
    /\ UNCHANGED <<mgr_vars, rt_vars, pl_vars, pq_vars, ha_vars, an_vars, th_vars, hc_vars, lp_eager,
                   lp_max_workers, lp_sem, lp_running, lp_stage, lp_timer, lp_served>>

\* The loop resumes _process_task after wait_for (lines 195-225).
LoopResume(t) ==
    /\ lp_running = 0
    /\ lp_pc[t] \in {"returned", "raised", "cancelled"}
    /\ LoopResumed(t, lp_pc[t])
    /\ UNCHANGED <<mgr_vars, rt_vars, pl_vars, pq_vars, ha_vars, an_vars, th_vars, hc_vars, lp_eager,
                   lp_max_workers, lp_running, lp_stage, lp_served>>

NextLoop ==
    \/ \E t \in LoopTasks : LoopSubmit(t)
    \/ LoopServe
    \/ \E t \in LoopTasks : LoopStart(t)
    \/ \E t \in LoopTasks : LoopBegin(t)
    \/ \E t \in LoopTasks : LoopStage(t)
    \/ \E t \in LoopTasks : LoopEnd(t)
    \/ \E t \in LoopTasks : LoopElapse(t)
    \/ \E t \in LoopTasks : LoopTimeout(t)
    \/ \E t \in LoopTasks : LoopResume(t)

SpecLoop == InitLoop /\ [][NextLoop]_vars

(***************************************************************************)
(* _optimize_queries_parallel with its worker threads                      *)
(*                                                                         *)
(* Query i is given to the pool as one future.  Its worker is at           *)
(*   "submitted"  waiting for a thread of the pool                         *)
(*   "running"    inside the try of _optimize_one_query                    *)
(*   "caught"     in the except branch, before _errors_lock                *)
(*   "locked"     holding _errors_lock                                     *)
(*   "returned"   the future holds the rewritten query                     *)
(*   "raised"     the future holds the exception                           *)
(* The calling thread is at "collecting" (the as_completed loop),          *)
(* "joined" (the pool has shut down), "returned" or "raised".              *)
(***************************************************************************)
MaxBatch == 3

ThreadBatches ==
    UNION { [1..n -> BOOLEAN] : n \in 0..MaxBatch }

InitThreads ==
    /\ InitBaseIdle
    /\ InitAnalysisIdle
    /\ InitLoopIdle
    /\ InitHealthIdle
    /\ th_queries \in ThreadBatches
    /\ th_pool \in 1..MaxWorkers
    /\ th_pc = [i \in 1..Len(th_queries) |-> "submitted"]
    /\ th_lock = 0
    /\ th_errors = <<>>
    /\ th_results = <<>>
    /\ th_collected = {}
    /\ th_main = "collecting"

\* The threads of the pool that are at work.
Busy == {i \in 1..Len(th_queries) : th_pc[i] \in {"running", "caught", "locked"}}

\* A thread of the pool takes the next work item (ex.submit, line 687).
WorkerStart(i) ==
    /\ i <= Len(th_queries)
    /\ th_pc[i] = "submitted"
    /\ Cardinality(Busy) < th_pool
    /\ th_pc' = [th_pc EXCEPT ![i] = "running"]
    /\ UNCHANGED <<mgr_vars, rt_vars, pl_vars, pq_vars, ha_vars, an_vars, lp_vars, hc_vars,
                   th_queries, th_pool, th_lock, th_errors, th_results, th_collected,
                   th_main>>

\* _optimize_one_query returns the rewritten query (lines 658-674).
WorkerReturn(i) ==
    /\ i <= Len(th_queries)
    /\ th_pc[i] = "running"
    /\ ~th_queries[i]
    /\ th_pc' = [th_pc EXCEPT ![i] = "returned"]
    /\ UNCHANGED <<mgr_vars, rt_vars, pl_vars, pq_vars, ha_vars, an_vars, lp_vars, hc_vars,
                   th_queries, th_pool, th_lock, th_errors, th_results, th_collected,
                   th_main>>

\* The rewriting raises and the except branch is entered (lines 676-677).
WorkerCatch(i) ==
    /\ i <= Len(th_queries)
    /\ th_pc[i] = "running"
    /\ th_queries[i]
    /\ th_pc' = [th_pc EXCEPT ![i] = "caught"]
    /\ UNCHANGED <<mgr_vars, rt_vars, pl_vars, pq_vars, ha_vars, an_vars, lp_vars, hc_vars,
                   th_queries, th_pool, th_lock, th_errors, th_results, th_collected,
                   th_main>>

\* with self._errors_lock (line 678)
WorkerLock(i) ==
    /\ i <= Len(th_queries)
    /\ th_pc[i] = "caught"
    /\ th_lock = 0
    /\ th_lock' = i
    /\ th_pc' = [th_pc EXCEPT ![i] = "locked"]
    /\ UNCHANGED <<mgr_vars, rt_vars, pl_vars, pq_vars, ha_vars, an_vars, lp_vars, hc_vars,
                   th_queries, th_pool, th_errors, th_results, th_collected, th_main>>

\* A worker that raises again without recording the error.
WorkerRecord_unrecorded(i) ==
    /\ i <= Len(th_queries)
    /\ th_pc[i] = "locked"
    /\ th_lock' = 0
    /\ th_pc' = [th_pc EXCEPT ![i] = "raised"]
    /\ UNCHANGED <<mgr_vars, rt_vars, pl_vars, pq_vars, ha_vars, an_vars, lp_vars, hc_vars,
                   th_queries, th_pool, th_errors, th_results, th_collected, th_main>>

\* errors.append(...), the lock is released and the exception raised again
\* (lines 679-684).
WorkerRecord(i) ==
    /\ i <= Len(th_queries)
    /\ th_pc[i] = "locked"
    /\ th_errors' = Append(th_errors, i)
    /\ th_lock' = 0
    /\ th_pc' = [th_pc EXCEPT ![i] = "raised"]
    /\ UNCHANGED <<mgr_vars, rt_vars, pl_vars, pq_vars, ha_vars, an_vars, lp_vars, hc_vars,
                   th_queries, th_pool, th_results, th_collected, th_main>>

\* One iteration of the as_completed loop (lines 689-695): a finished future
\* not yet yielded; its result is appended, its exception passed over.
MainCollect(i) ==
    /\ i <= Len(th_queries)
    /\ th_main = "collecting"
    /\ i \notin th_collected
    /\ th_pc[i] \in {"returned", "raised"}
    /\ th_collected' = th_collected \cup {i}
    /\ th_results' = IF th_pc[i] = "returned" THEN Append(th_results, i) ELSE th_results
    /\ UNCHANGED <<mgr_vars, rt_vars, pl_vars, pq_vars, ha_vars, an_vars, lp_vars, hc_vars,
                   th_queries, th_pool, th_pc, th_lock, th_errors, th_main>>

\* as_completed is exhausted and the with block shuts the pool down, which
\* waits for its threads (lines 686-695).
MainJoin ==
    /\ th_main = "collecting"
    /\ th_collected = 1..Len(th_queries)
    /\ Busy = {}
    /\ th_main' = "joined"
    /\ UNCHANGED <<mgr_vars, rt_vars, pl_vars, pq_vars, ha_vars, an_vars, lp_vars, hc_vars,
                   th_queries, th_pool, th_pc, th_lock, th_errors, th_results,
                   th_collected>>

\* Lines 697-703: LLMAnalyzerError when errors is not empty, results otherwise.
MainReturn ==
    /\ th_main = "joined"
    /\ th_main' = IF th_errors # <<>> THEN "raised" ELSE "returned"
    /\ UNCHANGED <<mgr_vars, rt_vars, pl_vars, pq_vars, ha_vars, an_vars, lp_vars, hc_vars,
                   th_queries, th_pool, th_pc, th_lock, th_errors, th_results,
                   th_collected>>

NextThreads ==
    \/ \E i \in 1..MaxBatch : WorkerStart(i)
    \/ \E i \in 1..MaxBatch : WorkerReturn(i)
    \/ \E i \in 1..MaxBatch : WorkerCatch(i)
    \/ \E i \in 1..MaxBatch : WorkerLock(i)
    \/ \E i \in 1..MaxBatch : WorkerRecord(i)
    \/ \E i \in 1..MaxBatch : MainCollect(i)
    \/ MainJoin
    \/ MainReturn

SpecThreads == InitThreads /\ [][NextThreads]_vars

(***************************************************************************)
(* GET /health                                                             *)
(***************************************************************************)
MaxHealthQueue == 10

\* llm_status (lines 183-195); the analyzer is absent when "unavailable".
LlmStatuses == {"configured", "no_api_key", "unavailable"}

\* What health_check reads: the statistics of the task manager and the state
\* of the analyzer.  create_task admits no task beyond max_queue_size.
HealthInputs ==
    UNION { { [total_tasks |-> n, max_queue_size |-> m, llm_status |-> l] :
                n \in 0..m, l \in LlmStatuses } : m \in 0..MaxHealthQueue }

\* health_check (api.py lines 197-210): the status of the queue and of the
\* system.  total >= max * 0.9 is 10 * total >= 9 * max.
health_check(stats) ==
    LET queue_status ==
            IF 10 * stats.total_tasks >= 9 * stats.max_queue_size THEN "nearly_full"
            ELSE IF stats.total_tasks >= stats.max_queue_size THEN "full"
            ELSE "healthy"
        degraded == stats.llm_status \in {"error", "no_api_key"}
    IN  [status |-> IF queue_status = "full" THEN "critical"
                    ELSE IF degraded THEN "degraded"
                    ELSE "healthy",
         queue |-> [status |-> queue_status,
                    current_size |-> stats.total_tasks,
                    max_size |-> stats.max_queue_size]]

InitHealth ==
    /\ InitBaseIdle
    /\ InitAnalysisIdle
    /\ InitLoopIdle
    /\ InitThreadsIdle
    /\ hc_stats \in HealthInputs
    /\ hc_report = <<>>

\* GET /health served.
HealthCheck ==
    /\ hc_report = <<>>
    /\ hc_report' = << health_check(hc_stats) >>
    /\ UNCHANGED <<mgr_vars, rt_vars, pl_vars, pq_vars, ha_vars, an_vars, lp_vars, th_vars,
                   hc_stats>>

NextHealth == HealthCheck

SpecHealth == InitHealth /\ [][NextHealth]_vars

(***************************************************************************)
(* Properties of the task orchestrator                                     *)
(***************************************************************************)
Registered == DOMAIN tasks

QueueFull == max_queue_size > 0 /\ Cardinality(Registered) >= max_queue_size

\* A step is a create_task call iff it creates a Task or counts a rejection.
IsCreateTaskStep ==
    \/ next_id' # next_id
    \/ error_stats'.queue_full_errors # error_stats.queue_full_errors
    \/ reply' # reply

\* C1: create_task on a full registry (max_queue_size > 0, max_queue_size tasks
\* registered, in any status) raises, registers no task, schedules no
\* execution, changes no task and no counter except queue_full_errors, which
\* grows by exactly 1.
C1_QueueFullRejects ==
    [][ (IsCreateTaskStep /\ QueueFull) =>
            /\ reply'.raised
            /\ tasks' = tasks
            /\ next_id' = next_id
            /\ pc' = pc
            /\ running_tasks' = running_tasks
            /\ sem_value' = sem_value
            /\ error_stats' = [error_stats EXCEPT !.queue_full_errors = @ + 1] ]_vars

C1_Witness ==
    /\ QueueFull
    /\ reply.raised
    /\ error_stats.queue_full_errors = 1
    /\ error_stats.total_errors = 0

SlotHolders == {t \in TaskIds : pc[t] \in {"processing", "returned", "raised"}}

\* C2: in every interleaving the number of tasks holding a semaphore slot and
\* the actually_processing value of get_stats stay within 0..max_workers.
C2_ConcurrencyBound ==
    /\ Cardinality(SlotHolders) <= max_workers
    /\ get_stats.actually_processing >= 0
    /\ get_stats.actually_processing <= max_workers

C2_Witness ==
    /\ next_id > max_workers
    /\ get_stats.actually_processing = max_workers
    /\ \E t \in TaskIds : pc[t] = "waiting"

\* C3 (as claimed): a pipeline that executed longer than the per-task timeout
\* never leaves its task DONE, with the LLM pipeline as with the simple one.
C3_OverrunNeverDone ==
    \A t \in Registered :
        elapsed[t] > TimeoutSeconds => tasks[t].status # "DONE"

\* C4: a task has a result iff it is DONE and an error message iff it is
\* FAILED; get_task_result gives nothing for a FAILED or RUNNING task.
C4_ResultIffDone ==
    \A t \in Registered :
        /\ (tasks[t].result # <<>>) <=> (tasks[t].status = "DONE")
        /\ (tasks[t].error # <<>>) <=> (tasks[t].status = "FAILED")
        /\ tasks[t].status # "DONE" => get_task_result(t) = <<>>

C4_Witness ==
    \E t \in Registered :
        /\ tasks[t].status = "FAILED"
        /\ tasks[t].error # <<>>
        /\ get_task_result(t) = <<>>

\* C5: the result query answers 404 for an unknown id, 202 without a result
\* for a RUNNING task, an error with the stored reason for a FAILED task and
\* 200 with the result for a DONE task; "result unavailable" is never answered.
C5_ResultQuery ==
    \A id \in TaskIds :
        LET r == GetResultResponse(id)
        IN  /\ r.detail # "result_unavailable"
            /\ id \notin Registered => r.code = 404
            /\ id \in Registered =>
                 CASE tasks[id].status = "RUNNING" -> r.code = 202 /\ r.body = <<>>
                   [] tasks[id].status = "FAILED" ->
                        /\ r.code = 500
                        /\ r.body # <<>>
                        /\ r.body = tasks[id].error
                   [] tasks[id].status = "DONE" ->
                        /\ r.code = 200
                        /\ r.body = << from_optimization_result(tasks[id].result[1]) >>

C5_Witness ==
    \E id \in Registered :
        /\ tasks[id].status = "DONE"
        /\ GetResultResponse(id).code = 200

\* C6: no step removes a RUNNING task from the registry, waiting or
\* executing, and a pipeline that starts or finishes finds its task registered.
C6_RunningNeverSwept ==
    [][ /\ \A t \in Registered : tasks[t].status = "RUNNING" => t \in DOMAIN tasks'
        /\ \A t \in TaskIds :
              (pc[t] \in {"waiting", "processing"} /\ pc'[t] # pc[t])
                  => t \in Registered /\ t \in DOMAIN tasks' ]_vars

\* A sweep evicted a task, and another task is still running or ended after it.
C6_Witness ==
    \E t, u \in TaskIds :
        /\ pc[t] = "finished" /\ t \notin Registered
        /\ u \in Registered
        /\ pc[u] \in {"processing", "returned", "finished"}

\* C7 (as claimed): a terminal task younger than the retention window
\* (cleanup_after_hours) is still registered after any step, sweeps included.
C7_YoungTerminalKept ==
    [][ \A t \in Registered :
            (Terminal(t) /\ age[t] < cleanup_after_hours) => t \in DOMAIN tasks' ]_vars

IsCreateSchema(statement) ==
    statement.kind \in {"CREATE SCHEMA", "CREATE SCHEMA IF NOT EXISTS"}

\* C10: the result of every DONE task has a non-empty ddl list whose first
\* statement creates a schema.
C10_FirstDdlCreatesSchema ==
    \A t \in Registered :
        tasks[t].status = "DONE" =>
            /\ tasks[t].result # <<>>
            /\ Len(tasks[t].result[1].ddl) > 0
            /\ IsCreateSchema(tasks[t].result[1].ddl[1])

\* Two DONE tasks of the LLM pipeline: one with the analyzer's DDL, one with
\* the fallback result of _create_result_from_llm.
C10_Witness ==
    /\ use_llm
    /\ \E t, u \in Registered :
          /\ tasks[t].status = "DONE" /\ tasks[t].result[1].quality_score = <<85>>
          /\ Len(tasks[t].result[1].ddl) > 1
          /\ tasks[u].status = "DONE" /\ tasks[u].result[1].quality_score = <<30>>


(***************************************************************************)
(* Properties of the retry-with-repair protocol                            *)
(***************************************************************************)
AttemptOutcome(i) == _call_llm_function(rt_calls[i].response)

\* C8: _call_with_retries returns the parsed object of the first attempt that
\* passes extraction and schema validation: every earlier attempt failed, the
\* returned object is exactly what the last answer parses to (nothing from an
\* earlier answer is in it), and once it has returned no further request is
\* sent to the producer.
C8_ReturnsFirstValid ==
    /\ [](rt_pc = "returned" =>
            /\ Len(rt_calls) >= 1
            /\ Len(rt_calls) <= rt_max_attempts
            /\ \A i \in 1..(Len(rt_calls) - 1) : ~AttemptOutcome(i).ok
            /\ AttemptOutcome(Len(rt_calls)).ok
            /\ rt_return = << ParsedObject(
                   _extract_json_from_response(
                       rt_calls[Len(rt_calls)].response[1])[1]) >>
            /\ rt_raised = <<>>)
    /\ [][rt_pc = "returned" => rt_calls' = rt_calls /\ rt_return' = rt_return]_vars

\* Malformed on attempt 1 (an object whose migrations member is not a list),
\* valid on attempt 2: the attempt-2 object is returned.
C8_Witness ==
    /\ rt_pc = "returned"
    /\ Len(rt_calls) = 2
    /\ rt_calls[1].response = << <<"{", "mbad", "}">> >>
    /\ rt_calls[2].repair_prompt # <<>>
    /\ rt_return = << {"m1"} >>

\* C9: when no attempt succeeds the producer is called exactly max_attempts
\* times, and the raised LLMAnalyzerError carries one history entry per
\* attempt, in attempt order, each with that attempt's errors and its raw
\* output truncated to the limit; the producer is never called more than
\* max_attempts times.
C9_ExhaustedAfterExactlyMaxAttempts ==
    /\ Len(rt_calls) <= rt_max_attempts
    /\ rt_pc = "raised" =>
        /\ Len(rt_calls) = rt_max_attempts
        /\ rt_return = <<>>
        /\ Len(rt_raised) = 1
        /\ LET attempts == rt_raised[1].details.attempts
           IN  /\ Len(attempts) = rt_max_attempts
               /\ \A i \in 1..Len(attempts) :
                    /\ ~AttemptOutcome(i).ok
                    /\ attempts[i].attempt = i
                    /\ attempts[i].errors = AttemptOutcome(i).errors
                    /\ Len(attempts[i].errors) = 1
                    /\ attempts[i].raw_output =
                         _safe_truncate(OrEmpty(AttemptOutcome(i).raw), TruncateLimit)
                    /\ Len(attempts[i].raw_output) <= TruncateLimit + 1

\* The budget is used up with three different kinds of failure, one of them
\* with a raw output longer than the limit.
C9_Witness ==
    /\ rt_pc = "raised"
    /\ rt_max_attempts = MaxAttempts
    /\ Len(rt_raised) = 1
    /\ LET attempts == rt_raised[1].details.attempts
       IN  /\ Len(attempts) = MaxAttempts
           /\ attempts[1].errors[1].type = "llm_request_error"
           /\ attempts[2].errors[1].type = "schema_validation"
           /\ attempts[MaxAttempts].errors[1].type = "json_not_found"
           /\ Len(attempts[MaxAttempts].raw_output) = TruncateLimit + 1


(***************************************************************************)
(* Properties of the path qualification                                    *)
(***************************************************************************)

\* C12 (as claimed): path qualification is idempotent: applied to its own
\* output, _replace_table_paths_robust returns that output unchanged, for
\* every query and every catalog name.
C12_QualificationIdempotent ==
    \A k \in 2..Len(pq_outputs) : pq_outputs[k] = pq_outputs[k - 1]


(***************************************************************************)
(* Properties of the analysis pipeline                                     *)
(***************************************************************************)
QueryIds(queries) == [i \in 1..Len(queries) |-> queries[i].queryid]

Occurrences(seq, x) == Cardinality({i \in 1..Len(seq) : seq[i] = x})

Ran(stage) == \E i \in 1..Len(pl_trace) : pl_trace[i] = stage

\* The queries of the request whose rewrite raises
FailedQueries == SelectSeq(request_data.queries, RewriteRaises)

\* C13: when the rewrite of at least one query of the batch raises,
\* _optimize_queries_parallel raises with one entry per failed query,
\* no rewritten query is kept, not even of the rewrites that succeeded, and
\* the task is never DONE: it ends FAILED.
C13_BatchFailsTogether ==
    (use_llm /\ Ran("queries") /\ pl_env.unexpected = <<>> /\ FailedQueries # <<>>) =>
        /\ pl_stage = "raised"
        /\ Len(pl_details) = 1
        /\ LET errors == pl_details[1].optimization_errors
           IN  /\ Len(errors) = Len(FailedQueries)
               /\ \A i \in 1..Len(FailedQueries) :
                     Occurrences(QueryIds(errors), FailedQueries[i].queryid)
                         = Occurrences(QueryIds(FailedQueries), FailedQueries[i].queryid)
        /\ pl_locals.optimized_queries = <<>>
        /\ tasks[1].status # "DONE"
        /\ tasks[1].result = <<>>
        /\ pc[1] = "finished" => tasks[1].status = "FAILED"

\* A batch of two queries, one rewrite raised and one succeeded: the task is
\* FAILED with the error of the batch.
C13_Witness ==
    /\ use_llm
    /\ Ran("queries")
    /\ pl_env.unexpected = <<>>
    /\ Len(FailedQueries) = 1
    /\ Len(request_data.queries) = 2
    /\ tasks[1].status = "FAILED"
    /\ tasks[1].error[1].cause = OptimizationFailedMsg(1, 2)


\* The stages of analyze_database in program order
StageOrder ==
    <<"statistics", "analysis", "ddl", "migrations", "queries", "validation",
      "evaluation">>

\* C14: within one analyze_database run the stages run in program order:
\* table analysis, DDL generation, migration generation, query optimization,
\* path validation, quality evaluation.  The stages that have run are always
\* the first stages of that order, each once; a stage starts only when it
\* is the one due after the stage that completed last; and once a stage has
\* failed no stage runs any more.
C14_StagesInOrder ==
    [][ /\ pl_stage = "raised" => pl_trace' = pl_trace
        /\ pl_trace' # pl_trace =>
              /\ Len(pl_trace) < Len(StageOrder)
              /\ pl_trace = SubSeq(StageOrder, 1, Len(pl_trace))
              /\ pl_trace' = Append(pl_trace, StageOrder[Len(pl_trace) + 1])
              /\ pl_stage = StageOrder[Len(pl_trace) + 1]
      ]_vars

\* A run stopped by the failure of the migrations: no later stage ran and
\* the task is FAILED.
C14_Witness ==
    /\ use_llm
    /\ pl_stage = "raised"
    /\ pl_trace = <<"statistics", "analysis", "ddl", "migrations">>
    /\ tasks[1].status = "FAILED"

\* A run in which every stage completed.
C14_WitnessComplete ==
    /\ use_llm
    /\ pl_trace = StageOrder
    /\ tasks[1].status = "DONE"



\* The evaluation failed: the request raised, the response was empty or held
\* no JSON, or its score is missing, not a number, or outside 1..100.
EvaluationFailed(answer) ==
    \/ answer.kind # "json"
    \/ answer.score.type \in {"missing", "str", "null"}
    \/ ~InRange(answer.score)

\* The result the task gets when the evaluation answers with a plain score
ResultWithGoodEvaluation ==
    _create_result_from_llm(WithScore(LocalResult, GoodEvaluation.score),
                            request_data, pl_env.pydantic)

\* C15: _evaluate_result_internal never raises: whatever the evaluation call
\* does, the stage completes with a score, and the score is 70 when the
\* evaluation failed or gave a score outside 1..100.  A failed evaluation
\* never makes the task FAILED, and the DDL, migrations and queries of the
\* task's result are those it has with a successful evaluation.
C15_EvaluationNeverFails ==
    (use_llm /\ Ran("evaluation")) =>
        /\ pl_stage \in {"build", "done"}
        /\ pc[1] # "raised"
        /\ tasks[1].status # "FAILED"
        /\ Len(pl_locals.evaluation_score) = 1
        /\ EvaluationFailed(pl_env.evaluation) =>
              /\ pl_locals.evaluation_score[1] = DefaultScore
              /\ tasks[1].status = "DONE" =>
                    /\ tasks[1].result[1].ddl = ResultWithGoodEvaluation.ddl
                    /\ tasks[1].result[1].migrations = ResultWithGoodEvaluation.migrations
                    /\ tasks[1].result[1].queries = ResultWithGoodEvaluation.queries

\* The evaluation request raised, and the task is DONE with the pipeline's
\* DDL and the score 70.
C15_Witness ==
    /\ use_llm
    /\ pl_env.evaluation.kind = "raises"
    /\ tasks[1].status = "DONE"
    /\ tasks[1].result[1].ddl = pl_locals.new_ddl
    /\ tasks[1].result[1].quality_score = <<70>>


\* C16: every DONE task has a quality_score, and it is an integer in 1..100,
\* whichever path produced it: the evaluator's score, its default 70, the
\* fallback 50 for a missing score, or the 30 of the simple result.
C16_ScoreInRange ==
    \A t \in DOMAIN tasks :
        tasks[t].status = "DONE" =>
            /\ Len(tasks[t].result) = 1
            /\ Len(tasks[t].result[1].quality_score) = 1
            /\ tasks[t].result[1].quality_score[1] \in 1..100

\* The evaluator answered 85.5: pydantic 2 rejects it for the integer field,
\* and the task is DONE with the score 30 of the simple result.
C16_Witness ==
    /\ use_llm
    /\ pl_env.evaluation = EvalAnswer("json", JsonFloat(855))
    /\ pl_env.pydantic = "v2"
    /\ tasks[1].status = "DONE"
    /\ tasks[1].result[1].quality_score = <<30>>

\* The same answer under pydantic 1: the score is truncated to 85.
C16_WitnessTruncated ==
    /\ use_llm
    /\ pl_env.evaluation = EvalAnswer("json", JsonFloat(855))
    /\ pl_env.pydantic = "v1"
    /\ tasks[1].status = "DONE"
    /\ tasks[1].result[1].quality_score = <<85>>


\* The data source fails: the driver is missing, the url is not supported,
\* the connection is refused, or the statistics queries raise or return
\* nothing.
SourceFails(source) == source.driver # "ok" \/ source.query # "ok"

HealthySource == [driver |-> "ok", query |-> "ok"]

\* C17: a failure of the data source never surfaces.  After the statistics
\* block the connector that was constructed is closed, whatever the source
\* did; with a failing source the statistics are unknown and the table
\* analysis runs next, on unknown statistics; and a task that is FAILED
\* fails in the same way with a healthy source.
C17_DataSourceFailureAbsorbed ==
    (use_llm /\ Ran("statistics")) =>
        /\ Len(pl_locals.db_connector) = 1
        /\ pl_locals.db_connector[1].closed
        /\ SourceFails(pl_env.source) =>
              /\ pl_locals.table_stats = NoStats
              /\ Len(pl_trace) = 1 => pl_stage = "analysis"
              /\ Ran("analysis") =>
                    pl_locals.tables_analysis =
                        _analyze_ddl_with_llm(request_data.ddl, pl_env.strategy, NoStats)
              /\ tasks[1].status = "FAILED" =>
                    LET healthy ==
                            analyze_database(request_data,
                                             [pl_env EXCEPT !.source = HealthySource])
                    IN  /\ healthy.raised
                        /\ tasks[1].error[1].cause = healthy.exc

\* The connection was made and the statistics queries raised: the connector
\* is closed and the task is DONE.
C17_Witness ==
    /\ use_llm
    /\ pl_env.source = [driver |-> "ok", query |-> "error"]
    /\ pl_locals.db_connector = << [connection |-> TRUE, closed |-> TRUE] >>
    /\ pl_locals.table_stats = NoStats
    /\ tasks[1].status = "DONE"

\* The connection was refused: the connector is closed all the same.
C17_WitnessRefused ==
    /\ use_llm
    /\ pl_env.source = [driver |-> "refused", query |-> "ok"]
    /\ pl_locals.db_connector = << [connection |-> FALSE, closed |-> TRUE] >>
    /\ tasks[1].status = "DONE"

\* With a healthy source the statistics are known.
C17_WitnessHealthy ==
    /\ use_llm
    /\ pl_env.source = HealthySource
    /\ pl_locals.table_stats # NoStats
    /\ tasks[1].status = "DONE"


(***************************************************************************)
(* Properties of the error statistics                                      *)
(***************************************************************************)
Counters ==
    {"timeout_errors", "llm_errors", "validation_errors", "database_errors",
     "total_errors", "queue_full_errors"}

\* The tasks that become FAILED in a step
NewlyFailed ==
    {t \in DOMAIN tasks \cap DOMAIN tasks' :
        tasks[t].status # "FAILED" /\ tasks'[t].status = "FAILED"}

NewlyTimedOut == {t \in NewlyFailed : tasks'[t].error[1].kind = "timeout"}

\* C18: no update of the error statistics is lost or undone.  In every step
\* total_errors grows by the number of tasks that become FAILED in it and
\* timeout_errors by the number of those that failed by timeout, so that
\* total_errors is the number of tasks that ever became FAILED and
\* timeout_errors the number that ever timed out, the tasks removed by the
\* cleanup included; no counter ever decreases, and no task enters the
\* table FAILED.
C18_ErrorStatsNeverLost ==
    [][ /\ \A c \in Counters : error_stats'[c] >= error_stats[c]
        /\ error_stats'.total_errors = error_stats.total_errors + Cardinality(NewlyFailed)
        /\ error_stats'.timeout_errors
              = error_stats.timeout_errors + Cardinality(NewlyTimedOut)
        /\ \A t \in DOMAIN tasks' \ DOMAIN tasks : tasks'[t].status # "FAILED"
        /\ \A t \in DOMAIN tasks \cap DOMAIN tasks' :
              tasks[t].status = "FAILED" => tasks'[t].status = "FAILED"
      ]_vars

\* Two tasks have failed, one of them by timeout, one FAILED task was removed
\* by the cleanup, and the counters still tell both failures.
C18_Witness ==
    /\ error_stats.total_errors = 2
    /\ error_stats.timeout_errors >= 1
    /\ Cardinality({t \in DOMAIN tasks : tasks[t].status = "FAILED"}) < 2


Delta(c) == error_stats'[c] - error_stats[c]

One(b) == IF b THEN 1 ELSE 0

\* The markers _process_task looks for, by category
LlmMarkers == {"json", "model_did_not_return"}
ValidationMarkers == {"validation"}
DatabaseMarkers == {"401", "unauthorized", "connection"}

\* C19: a failure that is not a timeout adds one to total_errors and to at
\* most one category, the first in the order llm, validation, database with
\* a marker in the text of the exception; without any marker only
\* total_errors grows.  A timeout adds one to timeout_errors and to
\* total_errors and to nothing else.
C19_FirstMarkerClassifies ==
    [][ \A t \in NewlyFailed :
          LET error == tasks'[t].error[1]
              markers == error.cause.markers
              llm == markers \cap LlmMarkers # {}
              validation == ~llm /\ markers \cap ValidationMarkers # {}
              database == ~llm /\ ~validation /\ markers \cap DatabaseMarkers # {}
          IN  /\ Delta("total_errors") = 1
              /\ Delta("queue_full_errors") = 0
              /\ IF error.kind = "timeout"
                 THEN /\ Delta("timeout_errors") = 1
                      /\ Delta("llm_errors") = 0
                      /\ Delta("validation_errors") = 0
                      /\ Delta("database_errors") = 0
                 ELSE /\ Delta("timeout_errors") = 0
                      /\ Delta("llm_errors") = One(llm)
                      /\ Delta("validation_errors") = One(validation)
                      /\ Delta("database_errors") = One(database)
      ]_vars

\* An exception whose text holds a validation and a database marker was
\* counted as a validation error only.
C19_Witness ==
    /\ tasks[1].status = "FAILED"
    /\ tasks[1].error[1].kind = "exception"
    /\ tasks[1].error[1].cause.markers = {"validation", "401"}
    /\ error_stats.validation_errors = 1
    /\ error_stats.database_errors = 0
    /\ error_stats.total_errors = 1

\* A failure without any marker, and a timeout.
C19_WitnessNoMarker ==
    /\ tasks[1].status = "FAILED"
    /\ tasks[1].error[1].cause = OptimizationFailedMsg(1, 2)
    /\ error_stats = [timeout_errors |-> 0, llm_errors |-> 0, validation_errors |-> 0,
                      database_errors |-> 0, total_errors |-> 1, queue_full_errors |-> 0]

C19_WitnessTimeout ==
    /\ tasks[1].status = "FAILED"
    /\ tasks[1].error[1].kind = "timeout"
    /\ error_stats = [timeout_errors |-> 1, llm_errors |-> 0, validation_errors |-> 0,
                      database_errors |-> 0, total_errors |-> 1, queue_full_errors |-> 0]


\* C20 (as claimed): a task run with the analyzer never ends DONE with the
\* canned result of _create_simple_result: when the OptimizationResult
\* cannot be built from the analyzer's output the task ends FAILED.
C20_NeverDoneWithPlaceholder ==
    \A t \in DOMAIN tasks :
        (use_llm /\ tasks[t].status = "DONE") =>
            tasks[t].result[1] # _create_simple_result(tasks[t].request)


(***************************************************************************)
(* Termination of tasks                                                    *)
(***************************************************************************)

\* The event loop runs every coroutine that is ready: a task that can take
\* the semaphore, a pipeline that can run, a handler whose wait_for has
\* returned or raised.  asyncio.Semaphore wakes its waiters in order of
\* arrival, so a waiting task is not passed over for ever.
Fairness ==
    \A t \in TaskIds :
        /\ SF_vars(Acquire(t))
        /\ WF_vars(ExecuteLLM(t))
        /\ WF_vars(ExecuteSimple(t))
        /\ WF_vars(ProcessReturn(t))
        /\ WF_vars(ProcessException(t))
        /\ WF_vars(ProcessTimeout(t))

\* The manager with an unbounded queue, every submission carrying the same
\* request, and no cleanup: what matters here is the order of the steps.
LiveRequest == CHOOSE request \in Requests : Len(request.queries) = 1

InitLive == Init /\ max_queue_size = 0

NextLive ==
    \/ CreateTask(LiveRequest)
    \/ \E t \in TaskIds : Acquire(t)
    \/ \E t \in TaskIds : ExecuteLLM(t)
    \/ \E t \in TaskIds : ExecuteSimple(t)
    \/ \E t \in TaskIds : ProcessReturn(t)
    \/ \E t \in TaskIds : ProcessException(t)
    \/ \E t \in TaskIds : ProcessTimeout(t)

SpecLive == InitLive /\ [][NextLive]_vars /\ Fairness

HoldsSlot(t) == pc[t] \in {"processing", "returned", "raised"}

\* C21: every admitted task eventually leaves RUNNING: it becomes DONE or
\* FAILED (and may then be removed by the cleanup); every worker slot that
\* was acquired is eventually released, and so every task waiting for the
\* semaphore eventually gets a slot.
C21_EveryTaskTerminates ==
    \A t \in TaskIds :
        /\ (t \in DOMAIN tasks /\ tasks[t].status = "RUNNING")
              ~> (t \notin DOMAIN tasks \/ tasks[t].status \in {"DONE", "FAILED"})
        /\ HoldsSlot(t) ~> pc[t] = "finished"
        /\ pc[t] = "waiting" ~> HoldsSlot(t)

\* Two tasks were admitted with one worker: the second one waited for the
\* slot of the first, and both are terminal with every slot released.
C21_Witness ==
    /\ max_workers = 1
    /\ DOMAIN tasks = {1, 2}
    /\ \A t \in {1, 2} : tasks[t].status \in {"DONE", "FAILED"} /\ pc[t] = "finished"
    /\ sem_value = max_workers


(***************************************************************************)
(* Properties of the request validation                                    *)
(***************************************************************************)

\* The request invariant of the specification
RequestInvariant(body) ==
    /\ body.url # <<>> /\ StartsWithJdbc(body.url[1])
    /\ body.ddl # <<>> /\ body.ddl[1] # <<>>
    /\ \A i \in 1..Len(body.ddl[1]) : body.ddl[1][i].statement # <<>>
    /\ body.queries # <<>> /\ body.queries[1] # <<>>
    /\ \A i \in 1..Len(body.queries[1]) :
          /\ body.queries[1][i].queryid \notin {<<>>, <<"">>}
          /\ body.queries[1][i].query \notin {<<>>, <<"">>}

\* C22 (as claimed): the request of every registered task satisfies the
\* request invariant: jdbc: prefix, non-empty DDL and query lists, a statement
\* in every DDL entry, a non-empty identifier and a non-empty SQL text in
\* every query.
C22_RegisteredRequestsValid ==
    \A t \in DOMAIN tasks : RequestInvariant(tasks[t].request)


(***************************************************************************)
(* Properties of the rewriting of one query                                *)
(***************************************************************************)

\* The query was rewritten: both steps of _optimize_one_query ran.
Rewritten == Len(pq_outputs) = 2

\* sqlglot is enabled and parses the query
AstPath == pq_enable_sql_parsing /\ pq_query.parses

ThreePart(query) == query.catalog # <<>> /\ query.schema # <<>>

KnownColumns ==
    LET table_metadata == _extract_table_metadata(pq_new_ddl)
    IN  IF pq_query.table \in DOMAIN table_metadata
        THEN table_metadata[pq_query.table]
        ELSE <<>>

\* The reference of the rewritten query: the optimized schema of the target
\* catalog, or the reference itself when it already named an optimized schema.
PathRewritten ==
    /\ pq_outputs[2].table = pq_query.table
    /\ pq_outputs[2].schema = <<"optimized">>
    /\ pq_outputs[2].catalog =
          IF pq_query.schema = <<"optimized">> THEN pq_query.catalog ELSE <<pq_catalog_name>>

\* C23: with AST parsing, a lone SELECT * over a three-part reference to a
\* table whose columns are known is rewritten to the projection of exactly
\* those columns, in the order of the DDL, against the optimized schema of
\* that table, and the default row limit is appended (a query that has a
\* limit or a GROUP BY keeps what it has).
C23_ColumnPruning ==
    (/\ Rewritten
     /\ AstPath
     /\ pq_query.projection = <<"*">>
     /\ ThreePart(pq_query)
     /\ KnownColumns # <<>>)
    => /\ pq_outputs[2].projection = KnownColumns
       /\ PathRewritten
       /\ pq_outputs[2].limit =
             IF pq_query.limit = <<>> /\ pq_query.group_by = <<>>
             THEN <<DefaultLimit>>
             ELSE pq_query.limit

C23_Witness ==
    /\ Rewritten
    /\ AstPath
    /\ pq_query = SqlOf(<<"*">>, <<"catalog">>, <<"public">>, "orders", <<>>, <<>>, TRUE)
    /\ pq_catalog_name = "catalog"
    /\ pq_outputs[2] = SqlOf(<<"id", "amount", "created_at">>, <<"catalog">>, <<"optimized">>,
                             "orders", <<>>, <<DefaultLimit>>, TRUE)

\* The query has an aggregate function or a GROUP BY, and no limit.
IsAggregation(query) ==
    \/ query.group_by # <<>>
    \/ \E i \in 1..Len(query.projection) : query.projection[i] \in AggFuncItems

NoStatistics == ha_row_count = 0 /\ ha_column_stats = <<>>

\* Names and types as the specification words them
DateLikeName(n) ==
    n \in {"created_at", "updated_at", "order_date", "event_time"}

IdLikeName(n) ==
    n \in {"id", "order_id", "customer_id", "status", "user_key", "type_code"}

TemporalType(t) == t \in {"DATE", "TIMESTAMP", "TIME"}

DateColumns ==
    LET Is(c) == DateLikeName(c[1]) /\ TemporalType(c[2])
    IN  ColumnNames(SelectSeq(ha_columns, Is))

IdColumns ==
    LET Is(c) == IdLikeName(c[1])
    IN  ColumnNames(SelectSeq(ha_columns, Is))

Elems(seq) == {seq[i] : i \in 1..Len(seq)}

\* C25 (as claimed): without statistics, every column with a date/time-like
\* name and a temporal type is a partition candidate and every column with
\* an id/key/code/type/status-like name is a cluster candidate.
C25_EveryColumnIsCandidate ==
    (ha_analysis # <<>> /\ NoStatistics)
    => /\ Elems(ha_analysis[1].partition_columns) = Elems(DateColumns)
       /\ Elems(ha_analysis[1].cluster_columns) = Elems(IdColumns)

\* C25 (amended): without statistics, the partition candidates are the first
\* two columns, in the order of the DDL, with a date/time-like name and a
\* temporal type, and the cluster candidates are the first four columns with
\* an id/key/code/type/status-like name; created_at TIMESTAMP and order_id
\* VARCHAR give the partition candidates [created_at] and the cluster
\* candidates [order_id].
C25_FirstColumnsAreCandidates ==
    (ha_analysis # <<>> /\ NoStatistics)
    => /\ ha_analysis[1].partition_columns = Take(DateColumns, 2)
       /\ ha_analysis[1].cluster_columns = Take(IdColumns, 4)
       /\ ha_columns = << <<"order_id", "VARCHAR">>, <<"created_at", "TIMESTAMP">> >>
             => /\ ha_analysis[1].partition_columns = <<"created_at">>
                /\ ha_analysis[1].cluster_columns = <<"order_id">>

C25_Witness ==
    /\ NoStatistics
    /\ ha_columns = << <<"order_id", "VARCHAR">>, <<"created_at", "TIMESTAMP">> >>
    /\ ha_analysis # <<>>
    /\ ha_analysis[1].partition_columns = <<"created_at">>
    /\ ha_analysis[1].cluster_columns = <<"order_id">>


(***************************************************************************)
(* Properties of the result query                                          *)
(***************************************************************************)

\* C26: every 200 response of GET /getresult carries exactly the fields ddl,
\* migrations and queries, with the values of the stored result: the
\* quality_score of the stored result, whatever its value, is not in it.
C26_ResponseExposesThreeFields ==
    \A t \in TaskIds :
        GetResultResponse(t).code = 200 =>
            /\ Len(GetResultResponse(t).body) = 1
            /\ DOMAIN GetResultResponse(t).body[1] = {"ddl", "migrations", "queries"}
            /\ GetResultResponse(t).body[1].ddl = tasks[t].result[1].ddl
            /\ GetResultResponse(t).body[1].migrations = tasks[t].result[1].migrations
            /\ GetResultResponse(t).body[1].queries = tasks[t].result[1].queries

\* Two 200 responses for stored results with different quality scores.
C26_Witness ==
    \E t, u \in TaskIds :
        /\ GetResultResponse(t).code = 200
        /\ GetResultResponse(u).code = 200
        /\ tasks[t].result[1].quality_score = <<85>>
        /\ tasks[u].result[1].quality_score = <<30>>
        /\ DOMAIN GetResultResponse(t).body[1] = DOMAIN GetResultResponse(u).body[1]

(***************************************************************************)
(* Properties of the queue ceiling and of the statistics                   *)
(***************************************************************************)
IsSweepStep == sweep_due /\ ~sweep_due'

AllTerminal == \A t \in DOMAIN tasks : tasks[t].status \in {"DONE", "FAILED"}

RunningStatus == {t \in DOMAIN tasks : tasks[t].status = "RUNNING"}

\* C28 (as claimed): whenever get_stats can be called, queued_tasks +
\* actually_processing = running_tasks, actually_processing is the number of
\* RUNNING tasks that hold a worker slot, queued_tasks is the number of
\* RUNNING tasks that wait for one, and actually_processing is at most the
\* number of RUNNING tasks.
C28_StatsPartition ==
    /\ get_stats.queued_tasks + get_stats.actually_processing = get_stats.running_tasks
    /\ get_stats.actually_processing = Cardinality({t \in RunningStatus : HoldsSlot(t)})
    /\ get_stats.queued_tasks = Cardinality({t \in RunningStatus : pc[t] = "waiting"})
    /\ get_stats.actually_processing <= Cardinality(RunningStatus)


(***************************************************************************)
(* Properties of the task life cycle                                       *)
(***************************************************************************)

\* C29: in every step a task enters the registry RUNNING, a RUNNING task
\* stays RUNNING or becomes DONE or FAILED, and a DONE or FAILED task keeps
\* its status, its result and its error for as long as it is registered.
C29_TerminalStatesAbsorbing ==
    [][ /\ \A t \in DOMAIN tasks' \ DOMAIN tasks : tasks'[t].status = "RUNNING"
        /\ \A t \in DOMAIN tasks \cap DOMAIN tasks' :
              /\ tasks'[t].status \in {"RUNNING", "DONE", "FAILED"}
              /\ tasks[t].status \in {"DONE", "FAILED"} =>
                    /\ tasks'[t].status = tasks[t].status
                    /\ tasks'[t].result = tasks[t].result
                    /\ tasks'[t].error = tasks[t].error ]_vars

\* A task failed by the timeout is still registered, with its error, after
\* an hour has passed and a second task has timed out as well.
C29_Witness ==
    \E t, u \in DOMAIN tasks :
        /\ t # u
        /\ tasks[t].status = "FAILED" /\ tasks[t].error[1].kind = "timeout"
        /\ age[t] >= 1
        /\ tasks[u].status = "FAILED" /\ age[u] = 0
        /\ pc[t] = "finished" /\ pc[u] = "finished"


(***************************************************************************)
(* Properties of the classification of pipeline failures                   *)
(***************************************************************************)
IsRewriteFailure(exc) == exc.text = "could not optimize n of m queries"

\* C30 (as claimed): a task whose pipeline failed becomes FAILED with the
\* message of the failure in its error, and the failure is counted by its
\* kind: the exhaustion of the migration protocol in llm_errors, a failed
\* path validation in validation_errors, a failed rewrite batch in
\* total_errors only.
C30_FailureCountedByKind ==
    [][ \A t \in NewlyFailed :
          LET cause == tasks'[t].error[1].cause
          IN  tasks'[t].error[1].kind = "exception" =>
                /\ cause = pending_exc[t]
                /\ Delta("total_errors") = 1
                /\ cause = ProtocolExhaustedMsg => Delta("llm_errors") = 1
                /\ cause = PathValidationMsg => Delta("validation_errors") = 1
                /\ IsRewriteFailure(cause) =>
                      /\ Delta("llm_errors") = 0
                      /\ Delta("validation_errors") = 0
                      /\ Delta("database_errors") = 0
                      /\ Delta("timeout_errors") = 0
      ]_vars

(***************************************************************************)
(* Properties of the table analysis and of the generated DDL               *)
(***************************************************************************)
\* The statements looked at so far that the loop does not skip, by position.
AnalyzedPositions ==
    LET Kept(i) == Analyzable(an_ddl[i])
    IN  SelectSeq([i \in 1..(an_i - 1) |-> i], Kept)

\* C31: every column named in the partitioning or clustering array of a
\* generated CREATE TABLE statement is a column of the table's original column
\* list: the array is the proposed list without the names that are not
\* columns, and it is omitted (empty) when every proposed name was dropped.
C31_ArrayColumnsAreTableColumns ==
    an_new_ddl # <<>> =>
        /\ Len(an_new_ddl[1]) = Len(an_analysis) + 1
        /\ \A i \in 1..Len(an_analysis) :
              LET st == an_new_ddl[1][i + 1]
                  a == an_analysis[i]
                  names == Elems(ColumnNames(a.original_columns))
                  IsColumn(c) == c \in names
              IN  /\ st.columns = a.original_columns
                  /\ Elems(st.partitioning) \subseteq names
                  /\ Elems(st.clustering) \subseteq names
                  /\ st.partitioning = SelectSeq(a.partition_columns, IsColumn)
                  /\ st.clustering = SelectSeq(a.cluster_columns, IsColumn)

\* A generated table lost the proposed column "ghost" from its partitioning
\* and kept "created_at"; another lost every proposed clustering column.
C31_Witness ==
    /\ an_new_ddl # <<>>
    /\ \E i \in 1..Len(an_analysis) :
          /\ an_analysis[i].partition_columns = <<"created_at", "ghost">>
          /\ an_new_ddl[1][i + 1].partitioning = <<"created_at">>
    /\ \E i \in 1..Len(an_analysis) :
          /\ an_analysis[i].cluster_columns = <<"ghost", "phantom">>
          /\ an_new_ddl[1][i + 1].clustering = <<>>

\* C32: every table analysis produced by _analyze_ddl_with_llm, from the
\* producer's answer or from the heuristic, has at most 2 partition columns
\* and at most 4 cluster columns; a usable answer is cut to its first 2 and
\* first 4 names.
C32_AnalysisCaps ==
    /\ Len(an_analysis) = Len(AnalyzedPositions)
    /\ \A k \in 1..Len(an_analysis) :
          LET a == an_analysis[k]
              strategy == StrategyOf(an_outcomes[AnalyzedPositions[k]])
          IN  /\ Len(a.partition_columns) <= 2
              /\ Len(a.cluster_columns) <= 4
              /\ strategy # <<>> =>
                    /\ a.partition_columns = Take(strategy[1].partition_columns, 2)
                    /\ a.cluster_columns = Take(strategy[1].cluster_columns, 4)

\* An answer with 3 partition and 5 cluster columns was cut to 2 and 4, next
\* to an analysis that came from the heuristic.
C32_Witness ==
    /\ \E k \in 1..Len(an_analysis) :
          /\ Len(an_outcomes[AnalyzedPositions[k]].partition_columns.items) = 3
          /\ Len(an_outcomes[AnalyzedPositions[k]].cluster_columns.items) = 5
          /\ Len(an_analysis[k].partition_columns) = 2
          /\ Len(an_analysis[k].cluster_columns) = 4
    /\ \E k \in 1..Len(an_analysis) :
          StrategyOf(an_outcomes[AnalyzedPositions[k]]) = <<>>

\* C33: a failed strategy request (exception, empty answer, no JSON, answer
\* that cannot be used) neither ends the loop nor drops the table: the table
\* gets the heuristic analysis.  Every CREATE TABLE statement with a name and
\* a column list has exactly one analysis and, once the DDL is generated,
\* exactly one CREATE TABLE statement, in the order of the input.
C33_FailedRequestFallsBack ==
    /\ Len(an_outcomes) = an_i - 1
    /\ Len(an_analysis) = Len(AnalyzedPositions)
    /\ \A k \in 1..Len(an_analysis) :
          LET item == an_ddl[AnalyzedPositions[k]]
              outcome == an_outcomes[AnalyzedPositions[k]]
              known == item.table \in DOMAIN an_table_stats
          IN  /\ an_analysis[k].table_name = item.table
              /\ an_analysis[k].original_columns = item.columns
              /\ StrategyOf(outcome) = <<>> =>
                    an_analysis[k] =
                        _heuristic_analysis(
                            item.table, item.columns,
                            IF known THEN an_table_stats[item.table].row_count ELSE 0,
                            IF known THEN an_table_stats[item.table].column_stats ELSE <<>>)
    /\ an_new_ddl # <<>> =>
          /\ an_i = Len(an_ddl) + 1
          /\ Len(an_new_ddl[1]) = Len(AnalyzedPositions) + 1
          /\ an_new_ddl[1][1].kind = "CREATE SCHEMA IF NOT EXISTS"
          /\ \A k \in 1..Len(AnalyzedPositions) :
                /\ an_new_ddl[1][k + 1].kind = "CREATE TABLE"
                /\ an_new_ddl[1][k + 1].table = an_ddl[AnalyzedPositions[k]].table
                /\ an_new_ddl[1][k + 1].columns = an_ddl[AnalyzedPositions[k]].columns

\* Two tables whose requests failed, one by an exception and one by an answer
\* with a null column list, both present in the generated DDL.
C33_Witness ==
    /\ an_new_ddl # <<>>
    /\ Len(an_new_ddl[1]) = 3
    /\ \E i \in 1..Len(an_outcomes) : an_outcomes[i].kind = "raises"
    /\ \E i \in 1..Len(an_outcomes) :
          /\ an_outcomes[i].kind = "object"
          /\ an_outcomes[i].partition_columns = Null

(***************************************************************************)
(* Properties of the default row limit                                     *)
(***************************************************************************)
\* The rewriting appended the default row limit to a query that had none.
LimitAppended == pq_query.limit = <<>> /\ pq_outputs[2].limit = <<DefaultLimit>>

\* A query with a limit keeps it, and a second rewriting changes nothing.
LimitKeptAndStable ==
    /\ pq_query.limit # <<>> => pq_outputs[2].limit = pq_query.limit
    /\ Len(pq_outputs) = 3 => pq_outputs[3] = pq_outputs[2]

\* C34 (as claimed): a rewritten query gets the default row limit appended
\* if and only if the input query has no limit of its own and is not an
\* aggregation; a query with a limit keeps it, and rewriting a rewritten
\* query adds nothing.
C34_DefaultLimitIff ==
    Len(pq_outputs) >= 2 =>
        /\ LimitAppended <=> (pq_query.limit = <<>> /\ ~IsAggregation(pq_query))
        /\ LimitKeptAndStable

\* C34 (amended): on the AST path the default row limit is appended if and
\* only if the query has no limit and neither a GROUP BY nor an aggregate
\* function; on the textual path if and only if the upper-cased text contains
\* neither LIMIT nor one of the keywords GROUP BY, COUNT(, SUM(, AVG(, MAX(,
\* MIN(, HAVING.  On both paths a query with a limit keeps it, and rewriting a
\* rewritten query adds nothing.
C34_DefaultLimitByPath ==
    Len(pq_outputs) >= 2 =>
        /\ AstPath =>
              (LimitAppended <=> (pq_query.limit = <<>> /\ ~IsAggregation(pq_query)))
        /\ ~AstPath =>
              (LimitAppended <=> ("LIMIT" \notin TextKeywords(pq_query)
                                  /\ ~_is_aggregation_query(pq_query)))
        /\ LimitKeptAndStable

\* A plain query was given the default limit on the AST path and rewritten
\* once more without a change.
C34_Witness ==
    /\ Len(pq_outputs) = 3
    /\ AstPath
    /\ pq_query.projection = <<"id", "amount">>
    /\ LimitAppended
    /\ pq_outputs[3].limit = <<DefaultLimit>>

(***************************************************************************)
(* Properties of the attempts of the analysis protocol                     *)
(***************************************************************************)
\* The content has a span from a brace to a brace closing depth 0.
HasBalancedSpan(content) ==
    LET NotFence(b) == b # "fence"
        cleaned == DropLeadingText(SelectSeq(content, NotFence))
        Depth(i) == Cardinality({j \in 1..i : cleaned[j] = "{"})
                    - Cardinality({j \in 1..i : cleaned[j] = "}"})
    IN  \E i \in 1..Len(cleaned) : cleaned[i] = "}" /\ Depth(i) = 0

\* C35: every failed attempt is recorded with exactly one typed reason among
\* empty_response, json_not_found, json_decode_error and schema_validation:
\* an empty answer gives empty_response, an answer without a balanced brace
\* span json_not_found, a span that does not parse json_decode_error, and a
\* parsed object missing required fields schema_validation.
C35_TypedReasons ==
    \A i \in 1..Len(rt_all_errors) :
        LET errors == rt_all_errors[i].errors
            response == rt_calls[i].response
            json_content == _extract_json_from_response(response[1])
        IN  errors # <<>> =>
              /\ Len(errors) = 1
              /\ errors[1].type \in {"empty_response", "json_not_found",
                                     "json_decode_error", "schema_validation"}
              /\ response # <<>> =>
                    errors[1].type =
                        IF response[1] = <<>> THEN "empty_response"
                        ELSE IF ~HasBalancedSpan(response[1]) THEN "json_not_found"
                        ELSE IF json_content = <<>> THEN "json_decode_error"
                        ELSE "schema_validation"

\* C36: attempt 1 carries no repair instruction; every attempt n > 1 carries,
\* after the unchanged instructions and payload, one repair instruction made
\* of the failure reasons and of the truncated raw output of attempt n - 1
\* only; an attempt is issued only after the previous one failed.
C36_RepairFromPreviousAttempt ==
    /\ Len(rt_calls) = Len(rt_all_errors)
    /\ \A n \in 1..Len(rt_calls) :
          LET base == << [role |-> "system", content |-> <<"system_prompt">>],
                         [role |-> "user", content |-> <<"user_input">>] >>
          IN  IF n = 1
              THEN /\ rt_calls[n].repair_prompt = <<>>
                   /\ rt_calls[n].messages = base
              ELSE LET previous == _call_llm_function(rt_calls[n - 1].response)
                       repair ==
                           [reasons |-> [i \in 1..Len(previous.errors) |->
                                            previous.errors[i].type],
                            snippet |-> Take(OrEmpty(previous.raw), SnippetLimit)]
                   IN  /\ ~previous.ok
                       /\ rt_all_errors[n - 1].errors # <<>>
                       /\ rt_calls[n].repair_prompt = <<repair>>
                       /\ rt_calls[n].messages =
                             base \o << [role |-> "system", content |-> <<repair>>] >>

\* Three attempts: the first failed on the schema, the second had no JSON, and
\* the third carries the reason and the output of the second only.
C36_Witness ==
    /\ Len(rt_calls) = 3
    /\ rt_all_errors[1].errors[1].type = "schema_validation"
    /\ rt_all_errors[2].errors[1].type = "json_not_found"
    /\ rt_calls[2].repair_prompt[1].reasons = <<"schema_validation">>
    /\ rt_calls[2].repair_prompt[1].snippet = <<"{">>
    /\ rt_calls[3].repair_prompt[1].reasons = <<"json_not_found">>
    /\ rt_calls[3].repair_prompt[1].snippet = <<"x">>
    /\ Len(rt_calls[3].messages) = 3

C38_EachQueryOnce ==
    LET n == Len(th_queries)
        InResults(i) == {k \in 1..Len(th_results) : th_results[k] = i}
        InErrors(i) == {k \in 1..Len(th_errors) : th_errors[k] = i}
    IN  /\ \A i \in 1..n : Cardinality(InResults(i)) + Cardinality(InErrors(i)) <= 1
        /\ th_main \in {"joined", "returned", "raised"} =>
              /\ \A i \in 1..n :
                    /\ th_pc[i] \in {"returned", "raised"}
                    /\ Cardinality(InResults(i)) + Cardinality(InErrors(i)) = 1
                    /\ Cardinality(InErrors(i)) = 1 <=> th_queries[i]
              /\ Len(th_results) + Len(th_errors) = n
        /\ th_main = "returned" => th_errors = <<>>
        /\ th_main = "raised" => th_errors # <<>>

\* Three queries on two threads: the last query failed and was recorded
\* before the first two were collected, in the reverse order of submission.
C38_Witness ==
    /\ th_main = "raised"
    /\ th_pool = 2
    /\ th_queries = <<FALSE, FALSE, TRUE>>
    /\ th_results = <<2, 1>>
    /\ th_errors = <<3>>

(***************************************************************************)
(* Properties of the health report                                         *)
(***************************************************************************)
\* C39: the health report gives the queue status full and the overall status
\* critical whenever the number of registered tasks is at least
\* max_queue_size, and nearly_full only when it is at least 90% of
\* max_queue_size and below max_queue_size.
C39_FullQueueIsCritical ==
    hc_report # <<>> =>
        /\ hc_stats.total_tasks >= hc_stats.max_queue_size =>
              /\ hc_report[1].queue.status = "full"
              /\ hc_report[1].status = "critical"
        /\ hc_report[1].queue.status = "nearly_full" =>
              /\ 10 * hc_stats.total_tasks >= 9 * hc_stats.max_queue_size
              /\ hc_stats.total_tasks < hc_stats.max_queue_size

\* C40: _extract_json_from_response returns nothing or a string that parses
\* as a JSON object, so no attempt is recorded as json_decode_error, and every
\* answer with content in which no span was found to parse is recorded as
\* json_not_found.
C40_DecodeErrorUnreachable ==
    \A i \in 1..Len(rt_calls) :
        LET response == rt_calls[i].response
            json_content == _extract_json_from_response(response[1])
            errors == rt_all_errors[i].errors
        IN  (response # <<>> /\ response[1] # <<>>) =>
              /\ \/ json_content = <<>>
                 \/ Len(json_content) = 1 /\ JsonLoads(json_content[1])
              /\ \A k \in 1..Len(errors) : errors[k].type # "json_decode_error"
              /\ ~(Len(json_content) = 1 /\ JsonLoads(json_content[1])) =>
                    /\ Len(errors) = 1
                    /\ errors[1].type = "json_not_found"

====
